---- MODULE Spec2Model ----
(***************************************************************************)
(* Indispenso: consensus-gated remote command execution.                   *)
(* A model of the coordinator's agent registry (agents.go), the per-agent  *)
(* command maps and long-poll channel (server.go), the command state       *)
(* machine with HMAC-signed dispatch (cmd.go, held in client.go), the      *)
(* consensus request lifecycle and the rollout coordinator.                *)
(***************************************************************************)
EXTENDS Integers, Sequences, FiniteSets, TLC

(***************************************************************************)
(* Bounds of the model.                                                    *)
(***************************************************************************)
\* agents of the tag-filter, sweep and state-report specifications
RegAgents == 2
\* distinct tags
NumTags == 2
\* last instant of the clock of the sweep specification
MaxTime == 7
\* agents of the rollout specification
MaxAgents == 4
\* largest minimum number of approvals of a template
MaxMinAuth == 2
\* consensus requests of the consensus specification
MaxRequests == 1
\* templates of the consensus specification
MaxTemplates == 1
\* tokens the agents ask for by restarting, over all agents
MaxRotations == 1
\* calls of Next() that may wait in the specification of the state reports
MaxNextCalls == 2
\* validation rules of a template
MaxRules == 2
\* commands submitted to the agents that poll
MaxSubmits == 2
\* lines a process prints on each of its two streams
MaxLines == 11
\* most lines a buffer takes in the specification of the reports
MaxUploaded == 2
\* seconds that pass in the specification of the purge
MaxPurgeTicks == 2
\* agent objects a caller may hand to AgentStore.Add for one id
MaxObjects == 2

(***************************************************************************)
(* Program constants.                                                      *)
(***************************************************************************)
\* seconds between two pings of an agent; the clock of the model counts
\* in units of one ping interval
CLIENT_PING_INTERVAL == 1

AgentIds == 1..MaxAgents
RegIds == 1..RegAgents
ReqIds == 1..MaxRequests
TemplateIds == 1..MaxTemplates
TagSet == 1..NumTags
\* tag lists as the callers build them with strings.Split: short lists,
\* repetitions included
TagLists == {<<>>} \cup {<<s>> : s \in TagSet} \cup {<<s, t>> : s \in TagSet, t \in TagSet}

VARIABLES
    agents,     \* AgentStore.agents: the set of registered agent ids
    LastPing,   \* RegisteredClient.LastPing, per agent id
    Tags,       \* RegisteredClient.Tags, per agent id
    now,        \* time.Now()
    listArgs,   \* the (include, exclude) of the last AgentStore.List call
    listRes,    \* what that call returned: a sequence of agent ids
    templates,  \* TemplateStore.Templates, per template id
    requests,   \* Consensus.Pending: the consensus requests, per request id
    entries,    \* ExecutionCoordinator: the entry of each request
    nextCalls,  \* per request, the calls of entry.Next() that have not run yet
    aborting,   \* the DELETE /consensus/request handler in progress
    nextRun,    \* the call of entry.Next() that holds the entry lock
    AuthToken,  \* RegisteredClient.AuthToken, per agent id (coordinator side)
    Cmds,       \* RegisteredClient.Cmds: ids of the commands in the pending map
    DispatchedCmds, \* RegisteredClient.DispatchedCmds: ids of the commands in flight
    CmdChan,    \* RegisteredClient.CmdChan: the senders blocked on the channel
    cmd,        \* the coordinator's Cmd objects, per command id
    tokens,     \* how many tokens secureRandomString has handed out
    clientToken, \* Client.AuthToken, per agent (agent side)
    clientCmds, \* per agent, the commands of the last poll not yet executed
    running,    \* per agent, the Cmd that Execute is working on
    abortedPending, \* commands AbortExecution removed while still pending
    abortDone,  \* requests whose DELETE handler has returned
    returned,   \* per command id, how many poll responses carried it (up to 2)
    lastPoll,   \* per agent, how its last long poll was answered
    jr,         \* the status of the JSON response of the last handler a user called
    userStore,  \* UserStore.Users: the accounts, per user
    disk,       \* the JSON files of the home directory, as the last save() wrote them
    reply,      \* what the last handler that an agent's request reached has answered
    httpReq,    \* Client._req: the loop of attempts of the request under way
    reporting,  \* a PUT of a state or of logs that holds its *Cmd and has not used it yet
    reading,    \* GetDispatchedCmds, or Commands, between its look at the map and its end
    objects,    \* AgentStore.agents: which agent object the map holds for an id (0: none)
    pinging     \* per caller, the RegisterClient that has called Get and not yet returned

regVars == <<agents, LastPing, Tags, now, objects, pinging>>
listVars == <<listArgs, listRes>>
consVars == <<templates, requests, entries, nextCalls, aborting, nextRun>>
srvVars == <<AuthToken, Cmds, DispatchedCmds, CmdChan, cmd, tokens>>
cliVars == <<clientToken, clientCmds, running>>
pollVars == <<returned, lastPoll>>
histVars == <<abortedPending, abortDone, pollVars, jr>>
cmdVars == <<srvVars, cliVars, histVars>>
storeVars == <<userStore, disk>>
callVars == <<reply, httpReq, reporting, reading>>
vars == <<regVars, listVars, consVars, cmdVars, storeVars, callVars>>

NoCall == <<"none">>

(***************************************************************************)
(* RegisteredClient                                                        *)
(***************************************************************************)
\* for _, tag := range c.Tags { if tag == s { return true } }; return false
RECURSIVE HasTagFrom(_, _, _)
HasTagFrom(tags, s, i) ==
    IF i > Len(tags) THEN FALSE
    ELSE IF tags[i] = s THEN TRUE
    ELSE HasTagFrom(tags, s, i + 1)

HasTag(a, s) ==
    IF Len(Tags[a]) = 0 THEN FALSE ELSE HasTagFrom(Tags[a], s, 1)

\* return time.Now().Sub(c.LastPing).Seconds() > float64(CLIENT_PING_INTERVAL*5)
IsAlive(a) == now - LastPing[a] > CLIENT_PING_INTERVAL * 5

\* the callers of RegisterClient that may be under way at once
Pingers == {1, 2}
NoPing == [active |-> FALSE]

\* the map holds one object for each registered id, and no call is under way
InitObjects ==
    /\ objects = [a \in AgentIds |-> IF a \in agents THEN 1 ELSE 0]
    /\ pinging = [p \in Pingers |-> NoPing]

(***************************************************************************)
(* AgentStore.List                                                         *)
(***************************************************************************)
\* for _, tag := range exclude { excluded = agent.HasTag(tag); if excluded { break } }
RECURSIVE ExcludedFrom(_, _, _)
ExcludedFrom(a, exclude, i) ==
    IF i > Len(exclude) THEN FALSE
    ELSE IF HasTag(a, exclude[i]) THEN TRUE
    ELSE ExcludedFrom(a, exclude, i + 1)

\* a filter that looks at the first exclude tag only
ExcludedFirstOnly(a, exclude) ==
    Len(exclude) > 0 /\ HasTag(a, exclude[1])

Excluded(a, exclude) ==
    IF Len(exclude) > 0 THEN ExcludedFrom(a, exclude, 1) ELSE FALSE

\* for _, tag := range include { if !agent.HasTag(tag) { match = false; break } }
RECURSIVE MatchFrom(_, _, _)
MatchFrom(a, include, i) ==
    IF i > Len(include) THEN TRUE
    ELSE IF ~HasTag(a, include[i]) THEN FALSE
    ELSE MatchFrom(a, include, i + 1)

\* one turn of the loop body of List: is the agent appended to res?
ListKeeps(a, include, exclude) ==
    IF Excluded(a, exclude) THEN FALSE
    ELSE IF Len(include) > 0 /\ MatchFrom(a, include, 1) = FALSE THEN FALSE
    ELSE TRUE

\* the loop of List over the agents in the order `order` of the map iteration
RECURSIVE ListFrom(_, _, _, _)
ListFrom(order, include, exclude, i) ==
    IF i > Len(order) THEN <<>>
    ELSE (IF ListKeeps(order[i], include, exclude) THEN <<order[i]>> ELSE <<>>)
         \o ListFrom(order, include, exclude, i + 1)

\* the orders in which a range over the map may visit its keys
Orders(S) == {o \in [1..Cardinality(S) -> S] : \A i, j \in DOMAIN o : i # j => o[i] # o[j]}

\* GET /clients and the selection of a template both end in this call
List(include, exclude) ==
    /\ \E order \in Orders(agents) :
          listRes' = ListFrom(order, include, exclude, 1)
    /\ listArgs' = <<include, exclude>>
    /\ UNCHANGED <<regVars, consVars, cmdVars, storeVars, callVars>>

(***************************************************************************)
(* AgentStore.Add / Cleanup, Server.RegisterClient                         *)
(***************************************************************************)
\* c.LastPing = time.Now(); c.Tags = tags
Update(a, tags) ==
    /\ LastPing' = [LastPing EXCEPT ![a] = now]
    /\ Tags' = [Tags EXCEPT ![a] = tags]

\* agent, _ := Get(clientId); if agent == nil { Add(newRegisteredClient) }; agent.Update(tags)
RegisterClient(a, tags) ==
    /\ agents' = agents \cup {a}
    /\ objects' = IF a \in agents THEN objects ELSE [objects EXCEPT ![a] = 1]
    /\ Update(a, tags)
    /\ UNCHANGED <<now, pinging, listVars, storeVars, callVars, consVars, cmdVars>>

\* for _, agent := range a.agents { if !agent.IsAlive() { delete(a.agents, agent.Id()) } }
Cleanup ==
    /\ agents' = {a \in agents : IsAlive(a)}
    /\ objects' = [a \in AgentIds |-> IF IsAlive(a) THEN objects[a] ELSE 0]
    /\ UNCHANGED <<LastPing, Tags, now, pinging, listVars, storeVars, callVars, consVars, cmdVars>>

\* the passing of time, in ping intervals
Tick ==
    /\ now < MaxTime
    /\ now' = now + 1
    /\ UNCHANGED <<agents, LastPing, Tags, objects, pinging, listVars, storeVars, callVars, consVars,
                   cmdVars>>

(***************************************************************************)
(* The stores of a coordinator that holds no template and no request.      *)
(***************************************************************************)
NoTemplate == [exists |-> FALSE]
NoRequest == [exists |-> FALSE]
NoEntry == [exists |-> FALSE]
NoAbort == [active |-> FALSE]
NoRun == [active |-> FALSE]

InitNoConsensus ==
    /\ templates = [t \in TemplateIds |-> NoTemplate]
    /\ requests = [r \in ReqIds |-> NoRequest]
    /\ entries = [r \in ReqIds |-> NoEntry]
    /\ nextCalls = [r \in ReqIds |-> 0]
    /\ aborting = NoAbort
    /\ nextRun = NoRun

\* a command id: the request and the agent the command was built for
CmdIds == ReqIds \X AgentIds
NoCmd == [exists |-> FALSE]
NotRunning == [active |-> FALSE]

InitNoCommands ==
    /\ AuthToken = [a \in AgentIds |-> 0]
    /\ Cmds = [a \in AgentIds |-> {}]
    /\ DispatchedCmds = [a \in AgentIds |-> {}]
    /\ CmdChan = [a \in AgentIds |-> 0]
    /\ cmd = [c \in CmdIds |-> NoCmd]
    /\ tokens = 0
    /\ clientToken = [a \in AgentIds |-> 0]
    /\ clientCmds = [a \in AgentIds |-> <<>>]
    /\ running = [a \in AgentIds |-> NotRunning]
    /\ abortedPending = {}
    /\ abortDone = {}
    /\ returned = [c \in CmdIds |-> 0]
    /\ lastPoll = [a \in AgentIds |-> "none"]
    /\ jr = "none"

(***************************************************************************)
(* Cmd: signing, the state machine and validation                          *)
(***************************************************************************)
\* the lines a process may print; a line is a sequence of characters
LineOk == <<1>>
LineOther == <<2>>
\* fmt.Sprintf("%v", err) of a process that exited with an error
LineExit == <<3>>
\* the one line strings.Split cuts an empty stream into
LineEmpty == <<>>
\* the outputs of a process, as strings.Split(out.String(), "\n") cuts them
ProcOutputs == {<<LineOk>>, <<LineOther>>}

Terminal == {"finished", "failed", "failed_validation", "invalid_signature"}

\* the empty string
NoSignature == <<>>

\* the text of the command of template t
CommandOf(t) == <<"command", t>>

\* base64url(HMAC-SHA256(base64url_decode(token), Command || Id)): a keyed
\* digest, distinct for distinct keys and messages. Every token of the model
\* is one secureRandomString produced, or the empty token: all decode.
ComputeHmac(token, command, id) == <<token, command, id>>

\* strings.Contains(line, text)
Contains(line, text) ==
    \E i \in 0..Len(line) :
        /\ i + Len(text) <= Len(line)
        /\ SubSeq(line, i + 1, i + Len(text)) = text

\* a match that asks for a line equal to the text
MatchedWholeLine(stream, text) == \E i \in DOMAIN stream : stream[i] = text

\* for _, line := range stream { if strings.Contains(line, v.Text) { matched = true } }
Matched(stream, text) == \E i \in DOMAIN stream : Contains(stream[i], text)

\* the loop of _validate over the rules: does some rule fail?
RECURSIVE FailedValidationFrom(_, _, _, _)
FailedValidationFrom(rules, out, err, i) ==
    IF i > Len(rules) THEN FALSE
    ELSE LET v == rules[i]
             stream == IF v.OutputStream = 1 THEN out ELSE err
             matched == Matched(stream, v.Text)
         IN  IF v.MustContain = TRUE /\ matched = FALSE THEN TRUE
             ELSE IF v.MustContain = FALSE /\ matched = TRUE THEN TRUE
             ELSE FailedValidationFrom(rules, out, err, i + 1)

\* _validate: only on the server, and only when the template still exists
Validate(c, serverEnabled) ==
    IF ~serverEnabled THEN c
    ELSE IF ~templates[c.TemplateId].exists THEN c
    ELSE IF FailedValidationFrom(templates[c.TemplateId].ValidationRules,
                                 c.BufOutput, c.BufOutputErr, 1)
         THEN [c EXCEPT !.state = "failed_validation"]
         ELSE [c EXCEPT !.state = "finished"]

\* Cmd.SetState
SetState(c, state, serverEnabled) ==
    LET oldState == c.state
        c1 == [c EXCEPT !.state = state]
    IN  IF oldState = "finished_execution" /\ c1.state = "flushed_logs"
            THEN Validate(c1, serverEnabled)
        ELSE IF oldState = "failed_execution" /\ c1.state = "flushed_logs"
            THEN [c1 EXCEPT !.state = "failed"]
        ELSE c1

\* _validate ends with: ece := executionCoordinator.Get(...); if ece != nil { go ece.Next() }
StartsNextIteration(c, state) ==
    /\ c.state = "finished_execution" /\ state = "flushed_logs"
    /\ SetState(c, state, TRUE).state = "finished"
    /\ entries[c.ConsensusRequestId].exists

(***************************************************************************)
(* The coordinator's handlers for an agent's reports                       *)
(***************************************************************************)
\* PUT /client/:clientId/cmd/:cmd/state: the Cmd objects after the handler
CmdAfterState(a, id, state) ==
    IF id \in DispatchedCmds[a]
        THEN [cmd EXCEPT ![id] = SetState(cmd[id], state, TRUE)]
        ELSE cmd

\* and the calls of Next() that wait to run after it
CallsAfterState(a, id, state) ==
    IF id \in DispatchedCmds[a] /\ StartsNextIteration(cmd[id], state)
        THEN [nextCalls EXCEPT ![cmd[id].ConsensusRequestId] = @ + 1]
        ELSE nextCalls

\* PUT /client/:clientId/cmd/:cmd/logs: the lines are appended to the buffers
CmdAfterLogs(cmds, a, id, out, err) ==
    IF id \in DispatchedCmds[a]
        THEN [cmds EXCEPT ![id].BufOutput = @ \o out, ![id].BufOutputErr = @ \o err]
        ELSE cmds

\* the handler on its own, for any state an authenticated caller names
PutClientCmdState(a, id, state) ==
    /\ a \in agents
    /\ cmd' = CmdAfterState(a, id, state)
    /\ nextCalls' = CallsAfterState(a, id, state)
    /\ reply' = IF id \in DispatchedCmds[a] THEN "OK" ELSE "ERROR"
    /\ UNCHANGED <<regVars, listVars, storeVars, httpReq, reporting, reading, templates, requests, entries, aborting, nextRun,
                   AuthToken, Cmds, DispatchedCmds, CmdChan, tokens, cliVars, histVars>>

\* POST /client/:clientId/auth, and the agent that stores the token returned
AuthServer(a) ==
    /\ tokens' = tokens + 1
    /\ AuthToken' = [AuthToken EXCEPT ![a] = tokens + 1]
    /\ clientToken' = [clientToken EXCEPT ![a] = tokens + 1]

\* RegisteredClient.AbortExecution: the in-flight map without the request's commands
AbortExecution(a, r) ==
    LET gone == {id \in DispatchedCmds[a] : cmd[id].ConsensusRequestId = r}
    IN  /\ DispatchedCmds' = [DispatchedCmds EXCEPT ![a] = @ \ gone]
        /\ abortedPending' = abortedPending \cup {id \in gone : cmd[id].Pending}

(***************************************************************************)
(* The long poll: GET /client/:clientId/cmds                               *)
(***************************************************************************)
\* a loop that polls again as soon as the last command of a poll has started
IdleNothingQueued(a) == clientCmds[a] = <<>>

\* the agent's loop, for { PollCmds() }, polls when it executes nothing
Idle(a) == clientCmds[a] = <<>> /\ ~running[a].active

\* the commands of the pending map still marked Pending
PendingOf(a) == {id \in Cmds[a] : cmd[id].Pending}

\* the sender a receive on CmdChan releases, and the end of its Next()
RunAfterReceive(a) ==
    IF nextRun.active /\ nextRun.sending = a
        THEN IF nextRun.todo = <<>> THEN NoRun ELSE [nextRun EXCEPT !.sending = 0]
        ELSE nextRun

\* a poll that hands the commands over and leaves them marked Pending
ClientCmdsKeepingPending(a) ==
    /\ a \in agents
    /\ Idle(a)
    /\ AuthToken[a] # 0
    /\ CmdChan[a] > 0
    /\ CmdChan' = [CmdChan EXCEPT ![a] = @ - 1]
    /\ cmd' = cmd
    /\ \E order \in Orders(PendingOf(a)) :
          clientCmds' = [clientCmds EXCEPT ![a] =
              [i \in DOMAIN order |-> [Id |-> order[i],
                                       Command |-> cmd[order[i]].Command,
                                       Signature |-> cmd[order[i]].Signature]]]
    /\ nextRun' = RunAfterReceive(a)
    /\ returned' = [id \in CmdIds |-> IF id \in PendingOf(a) /\ returned[id] < 2
                                         THEN returned[id] + 1 ELSE returned[id]]
    /\ lastPoll' = [lastPoll EXCEPT ![a] = "cmds"]
    /\ UNCHANGED <<regVars, listVars, storeVars, callVars, templates, requests, entries, nextCalls, aborting,
                   AuthToken, Cmds, DispatchedCmds, tokens, clientToken, running,
                   abortedPending, abortDone, jr>>

\* case <-registeredClient.CmdChan: every Pending command is handed over
ClientCmds(a) ==
    /\ a \in agents
    /\ Idle(a)
    /\ AuthToken[a] # 0
    /\ CmdChan[a] > 0
    /\ CmdChan' = [CmdChan EXCEPT ![a] = @ - 1]
    /\ cmd' = [id \in CmdIds |-> IF id \in PendingOf(a)
                                    THEN [cmd[id] EXCEPT !.Pending = FALSE]
                                    ELSE cmd[id]]
    /\ \E order \in Orders(PendingOf(a)) :
          clientCmds' = [clientCmds EXCEPT ![a] =
              [i \in DOMAIN order |-> [Id |-> order[i],
                                       Command |-> cmd[order[i]].Command,
                                       Signature |-> cmd[order[i]].Signature]]]
    /\ nextRun' = RunAfterReceive(a)
    /\ returned' = [id \in CmdIds |-> IF id \in PendingOf(a) /\ returned[id] < 2
                                         THEN returned[id] + 1 ELSE returned[id]]
    /\ lastPoll' = [lastPoll EXCEPT ![a] = "cmds"]
    /\ UNCHANGED <<regVars, listVars, storeVars, callVars, templates, requests, entries, nextCalls, aborting,
                   AuthToken, Cmds, DispatchedCmds, tokens, clientToken, running,
                   abortedPending, abortDone, jr>>

\* a timeout that clears the agent's in-flight map
ClientCmdsTimeoutForgetting(a) ==
    /\ a \in agents
    /\ Idle(a)
    /\ AuthToken[a] # 0
    /\ CmdChan[a] = 0
    /\ clientCmds' = [clientCmds EXCEPT ![a] = <<>>]
    /\ lastPoll' = [lastPoll EXCEPT ![a] = "timeout"]
    /\ DispatchedCmds' = [DispatchedCmds EXCEPT ![a] = {}]
    /\ UNCHANGED <<regVars, listVars, storeVars, callVars, consVars, AuthToken, Cmds, CmdChan, cmd, tokens,
                   clientToken, running, abortedPending, abortDone, returned, jr>>

\* case <-time.After(LONG_POLL_TIMEOUT): no sender came, the list is empty
ClientCmdsTimeout(a) ==
    /\ a \in agents
    /\ Idle(a)
    /\ AuthToken[a] # 0
    /\ CmdChan[a] = 0
    /\ clientCmds' = [clientCmds EXCEPT ![a] = <<>>]
    /\ lastPoll' = [lastPoll EXCEPT ![a] = "timeout"]
    /\ UNCHANGED <<regVars, listVars, storeVars, callVars, consVars, srvVars, clientToken, running,
                   abortedPending, abortDone, returned, jr>>

\* a poll that takes the sender's signal before it looks at the token
ClientCmdsRejectedAfterReceive(a) ==
    /\ a \in agents
    /\ Idle(a)
    /\ AuthToken[a] = 0
    /\ CmdChan' = [CmdChan EXCEPT ![a] = IF @ > 0 THEN @ - 1 ELSE @]
    /\ lastPoll' = [lastPoll EXCEPT ![a] = "rejected"]
    /\ UNCHANGED <<regVars, listVars, storeVars, callVars, consVars, AuthToken, Cmds,
                   DispatchedCmds, cmd, tokens, cliVars,
                   abortedPending, abortDone, returned, jr>>

\* if len(registeredClient.AuthToken) < 1: the poll is answered with an error
ClientCmdsRejected(a) ==
    /\ a \in agents
    /\ Idle(a)
    /\ AuthToken[a] = 0
    /\ lastPoll' = [lastPoll EXCEPT ![a] = "rejected"]
    /\ UNCHANGED <<regVars, listVars, storeVars, callVars, consVars, srvVars, cliVars,
                   abortedPending, abortDone, returned, jr>>

(***************************************************************************)
(* Cmd.Execute on the agent                                                *)
(***************************************************************************)
\* NotifyServer: the local SetState, then the PUT when the command is signed
Notified(a, state) == [running[a] EXCEPT !.state = SetState(running[a], state, FALSE).state]

NotifyServer(a, state) ==
    LET c == running[a]
    IN  IF Len(c.Signature) > 0
            THEN /\ cmd' = CmdAfterState(a, c.Id, state)
                 /\ nextCalls' = CallsAfterState(a, c.Id, state)
            ELSE UNCHANGED <<cmd, nextCalls>>

\* a check that only asks for some signature
SignatureValidAnySigned(a) == Len(running[a].Signature) >= 1

\* expectedMac != c.Signature || len(c.Signature) < 1 is the invalid case
SignatureValid(a) ==
    LET c == running[a]
        expectedMac == ComputeHmac(clientToken[a], c.Command, c.Id)
    IN  ~(expectedMac # c.Signature \/ Len(c.Signature) < 1)

\* cmd := newCmd(...); cmd.Execute(client) starts with NotifyServer("validating")
ExecuteValidating(a) ==
    /\ ~running[a].active
    /\ clientCmds[a] # <<>>
    /\ LET c == Head(clientCmds[a])
       IN  /\ running' = [running EXCEPT ![a] =
                  [active |-> TRUE, Id |-> c.Id, Command |-> c.Command,
                   Signature |-> c.Signature, state |-> "validating", pc |-> "check",
                   BufOutput |-> <<>>, BufOutputErr |-> <<>>]]
           /\ clientCmds' = [clientCmds EXCEPT ![a] = Tail(@)]
           /\ IF Len(c.Signature) > 0
                 THEN /\ cmd' = CmdAfterState(a, c.Id, "validating")
                      /\ nextCalls' = CallsAfterState(a, c.Id, "validating")
                 ELSE UNCHANGED <<cmd, nextCalls>>
    /\ UNCHANGED <<regVars, listVars, storeVars, callVars, templates, requests, entries, aborting, nextRun,
                   AuthToken, Cmds, DispatchedCmds, CmdChan, tokens, clientToken, histVars>>

\* the HMAC check: NotifyServer("invalid_signature") or NotifyServer("starting")
ExecuteCheck(a) ==
    /\ running[a].active /\ running[a].pc = "check"
    /\ IF SignatureValid(a)
          THEN /\ running' = [running EXCEPT ![a] = [Notified(a, "starting") EXCEPT !.pc = "start"]]
               /\ NotifyServer(a, "starting")
          ELSE /\ running' = [running EXCEPT ![a] = [Notified(a, "invalid_signature") EXCEPT !.pc = "reauth"]]
               /\ NotifyServer(a, "invalid_signature")
    /\ UNCHANGED <<regVars, listVars, storeVars, callVars, templates, requests, entries, aborting, nextRun,
                   AuthToken, Cmds, DispatchedCmds, CmdChan, tokens, clientToken, clientCmds,
                   histVars>>

\* client.AuthServer(); return
ExecuteReauth(a) ==
    /\ running[a].active /\ running[a].pc = "reauth"
    /\ AuthServer(a)
    /\ running' = [running EXCEPT ![a] = NotRunning]
    /\ UNCHANGED <<regVars, listVars, storeVars, callVars, consVars, Cmds, DispatchedCmds, CmdChan, cmd,
                   clientCmds, histVars>>

\* err := cmd.Start(): failed_execution and return, or started_execution
ExecuteStart(a) ==
    /\ running[a].active /\ running[a].pc = "start"
    /\ \E started \in BOOLEAN :
          IF started
             THEN /\ running' = [running EXCEPT ![a] = [Notified(a, "started_execution") EXCEPT !.pc = "wait"]]
                  /\ NotifyServer(a, "started_execution")
             ELSE /\ running' = [running EXCEPT ![a] = NotRunning]
                  /\ NotifyServer(a, "failed_execution")
    /\ UNCHANGED <<regVars, listVars, storeVars, callVars, templates, requests, entries, aborting, nextRun,
                   AuthToken, Cmds, DispatchedCmds, CmdChan, tokens, clientToken, clientCmds,
                   histVars>>

\* the select on the timeout and on the end of the process
ExecuteWait(a) ==
    /\ running[a].active /\ running[a].pc = "wait"
    /\ \E end \in {"kill_failed", "killed", "exit_error", "exit_ok"} :
          CASE end = "kill_failed" ->
                  /\ running' = [running EXCEPT ![a] = NotRunning]
                  /\ UNCHANGED <<cmd, nextCalls>>
            [] end = "killed" ->
                  /\ running' = [running EXCEPT ![a] = [Notified(a, "killed_execution") EXCEPT !.pc = "flush"]]
                  /\ NotifyServer(a, "killed_execution")
            [] end = "exit_error" ->
                  /\ running' = [running EXCEPT ![a] =
                        [Notified(a, "failed_execution") EXCEPT !.pc = "flush", !.BufOutputErr = @ \o <<LineExit>>]]
                  /\ NotifyServer(a, "failed_execution")
            [] end = "exit_ok" ->
                  /\ running' = [running EXCEPT ![a] = [Notified(a, "finished_execution") EXCEPT !.pc = "flush"]]
                  /\ NotifyServer(a, "finished_execution")
    /\ UNCHANGED <<regVars, listVars, storeVars, callVars, templates, requests, entries, aborting, nextRun,
                   AuthToken, Cmds, DispatchedCmds, CmdChan, tokens, clientToken, clientCmds,
                   histVars>>

\* the output is logged, _flushLogs uploads it, then NotifyServer("flushed_logs")
ExecuteFlush(a) ==
    /\ running[a].active /\ running[a].pc = "flush"
    /\ \E out \in ProcOutputs :
          LET c == running[a]
              uploaded == IF Len(c.Signature) < 1 THEN cmd
                          ELSE CmdAfterLogs(cmd, a, c.Id, c.BufOutput \o out, c.BufOutputErr \o <<LineEmpty>>)
          IN  IF Len(c.Signature) > 0 /\ c.Id \in DispatchedCmds[a]
                 THEN /\ cmd' = [uploaded EXCEPT ![c.Id] = SetState(uploaded[c.Id], "flushed_logs", TRUE)]
                      /\ nextCalls' = IF StartsNextIteration(uploaded[c.Id], "flushed_logs")
                                         THEN [nextCalls EXCEPT ![uploaded[c.Id].ConsensusRequestId] = @ + 1]
                                         ELSE nextCalls
                 ELSE UNCHANGED <<cmd, nextCalls>>
    /\ running' = [running EXCEPT ![a] = NotRunning]
    /\ UNCHANGED <<regVars, listVars, storeVars, callVars, templates, requests, entries, aborting, nextRun,
                   AuthToken, Cmds, DispatchedCmds, CmdChan, tokens, clientToken, clientCmds,
                   histVars>>

(***************************************************************************)
(* Users and templates                                                     *)
(***************************************************************************)
Users == {"u1", "u2", "u3", "u4"}
\* User.Roles
Roles(u) ==
    CASE u = "u1" -> {"requester"}
      [] u = "u2" -> {"approver"}
      [] u = "u3" -> {"approver", "requester"}
      [] u = "u4" -> {"admin", "approver"}
HasRole(u, role) == role \in Roles(u)

StrategyNames == {"simple", "one-test", "rolling", "exponential-rolling"}

\* a switch that takes "rolling" for the one-test strategy
StrategyOfRollingAsOneTest(executionStrategyStr) ==
    CASE executionStrategyStr = "simple" -> "SimpleExecutionStrategy"
      [] executionStrategyStr = "one-test" -> "OneTestExecutionStrategy"
      [] executionStrategyStr = "rolling" -> "OneTestExecutionStrategy"
      [] executionStrategyStr = "exponential-rolling" -> "ExponentialRollingExecutionStrategy"
      [] OTHER -> "none"

\* the switch of POST /template on executionStrategy
StrategyOf(executionStrategyStr) ==
    CASE executionStrategyStr = "simple" -> "SimpleExecutionStrategy"
      [] executionStrategyStr = "one-test" -> "OneTestExecutionStrategy"
      [] executionStrategyStr = "rolling" -> "RollingExecutionStrategy"
      [] executionStrategyStr = "exponential-rolling" -> "ExponentialRollingExecutionStrategy"
      [] OTHER -> "none"

\* newExecutionValidation(txt, fatal, mustContain, outputStream)
\* nil for a stream that is neither 1 nor 2 and for an empty text; else a rule
\* with Fatal: true, MustContain: true, OutputStream: 1 and the text
NilRule == [nil |-> TRUE]
newExecutionValidation(txt, fatal, mustContain, outputStream) ==
    IF outputStream # 1 /\ outputStream # 2 THEN NilRule
    ELSE IF Len(txt) < 1 THEN NilRule
    ELSE [Fatal |-> TRUE, MustContain |-> TRUE, Text |-> txt, OutputStream |-> 1]

\* newTemplate(..., uint(minAuth), int(timeout), executionStrategy)
newTemplate(executionStrategyStr, minAuth) ==
    [exists |-> TRUE,
     Command |-> CommandOf(1),
     MinAuth |-> minAuth,
     StrategyStr |-> executionStrategyStr,
     Strategy |-> StrategyOf(executionStrategyStr),
     ValidationRules |-> <<>>]

\* template.AddValidationRule(rule)
AddValidationRule(template, rule) ==
    [template EXCEPT !.ValidationRules = Append(@, rule)]

\* POST /template: an admin, a known strategy, minAuth of at least 1
PostTemplate(u, executionStrategyStr, minAuth) ==
    /\ \E t \in TemplateIds :
          /\ ~templates[t].exists
          /\ \A q \in TemplateIds : q < t => templates[q].exists
          /\ IF HasRole(u, "admin") /\ StrategyOf(executionStrategyStr) # "none"
                /\ ~(minAuth < 1)
                THEN /\ templates' = [templates EXCEPT ![t] =
                                         newTemplate(executionStrategyStr, minAuth)]
                     /\ disk' = [disk EXCEPT !.templates = templates']
                     /\ jr' = "OK"
                ELSE /\ jr' = "ERROR"
                     /\ UNCHANGED <<templates, disk>>
    /\ UNCHANGED <<regVars, listVars, userStore, callVars, requests, entries, nextCalls, aborting, nextRun, srvVars, cliVars,
                   abortedPending, abortDone, pollVars>>

\* DELETE /template: an admin removes the template, whatever still refers to it
DeleteTemplate(u, t) ==
    /\ IF HasRole(u, "admin")
          THEN /\ templates' = [templates EXCEPT ![t] = NoTemplate]
               /\ disk' = [disk EXCEPT !.templates = templates']
               /\ jr' = "OK"
          ELSE /\ jr' = "ERROR"
               /\ UNCHANGED <<templates, disk>>
    /\ UNCHANGED <<regVars, listVars, userStore, callVars, requests, entries, nextCalls, aborting, nextRun, srvVars, cliVars,
                   abortedPending, abortDone, pollVars>>

(***************************************************************************)
(* Consensus: requests, votes and the hand-over to the coordinator         *)
(***************************************************************************)
\* the entry the coordinator creates for an approved request
NewEntry(clientIds) ==
    [exists |-> TRUE, started |-> FALSE, iteration |-> 0,
     pendingAgents |-> clientIds,
     inflightAgents |-> {}, completedAgents |-> {}, failedAgents |-> {}]

\* a check that counts the requester's own vote
ReadyCountingRequester(req) ==
    /\ templates[req.TemplateId].exists
    /\ Cardinality(req.ApproveUserIds) + 1 >= templates[req.TemplateId].MinAuth

\* a request is ready when |approvers| >= template.minApprovals
Ready(req) ==
    /\ templates[req.TemplateId].exists
    /\ Cardinality(req.ApproveUserIds) >= templates[req.TemplateId].MinAuth

\* ConsensusRequest.check: on quorum, Approved and handed to the coordinator
Checked(reqs, r) ==
    IF reqs[r].state = "Pending" /\ Ready(reqs[r])
        THEN [reqs EXCEPT ![r].state = "Approved"]
        ELSE reqs

Starts(reqs, r) == reqs[r].state = "Pending" /\ Ready(reqs[r])

\* a vote that is refused only when the user has voted before
ApprovedCountingRequester(reqs, r, u) ==
    IF u \in reqs[r].ApproveUserIds
        THEN reqs
        ELSE [reqs EXCEPT ![r].ApproveUserIds = @ \cup {u}]

\* ConsensusRequest.Approve: the requester's vote and a second vote are no-ops
Approved(reqs, r, u) ==
    IF reqs[r].RequestUserId = u \/ u \in reqs[r].ApproveUserIds
        THEN reqs
        ELSE [reqs EXCEPT ![r].ApproveUserIds = @ \cup {u}]

\* a handler that does not ask for the two-factor proof
PostConsensusRequestWithoutTotp(u, totpValid, reasonLen, t, clientIds) ==
    /\ \E r \in ReqIds :
          /\ ~requests[r].exists
          /\ \A q \in ReqIds : q < r => requests[q].exists
          /\ IF HasRole(u, "requester") /\ ~(reasonLen < 4)
                THEN LET added == [requests EXCEPT ![r] =
                                     [exists |-> TRUE, TemplateId |-> t, ClientIds |-> clientIds,
                                      RequestUserId |-> u, ApproveUserIds |-> {},
                                      state |-> "Pending"]]
                     IN  /\ requests' = Checked(added, r)
                         /\ entries' = IF Starts(added, r)
                                          THEN [entries EXCEPT ![r] = NewEntry(clientIds)]
                                          ELSE entries
                         /\ nextCalls' = IF Starts(added, r)
                                            THEN [nextCalls EXCEPT ![r] = @ + 1]
                                            ELSE nextCalls
                         /\ disk' = [disk EXCEPT !.consensus = requests']
                         /\ jr' = "OK"
                ELSE /\ jr' = "ERROR"
                     /\ UNCHANGED <<requests, entries, nextCalls, disk>>
    /\ UNCHANGED <<regVars, listVars, userStore, callVars, templates, aborting, nextRun, srvVars, cliVars,
                   abortedPending, abortDone, pollVars>>

\* POST /consensus/request
PostConsensusRequest(u, totpValid, reasonLen, t, clientIds) ==
    /\ \E r \in ReqIds :
          /\ ~requests[r].exists
          /\ \A q \in ReqIds : q < r => requests[q].exists
          /\ IF HasRole(u, "requester") /\ totpValid /\ ~(reasonLen < 4)
                THEN LET added == [requests EXCEPT ![r] =
                                     [exists |-> TRUE, TemplateId |-> t, ClientIds |-> clientIds,
                                      RequestUserId |-> u, ApproveUserIds |-> {},
                                      state |-> "Pending"]]
                     IN  /\ requests' = Checked(added, r)
                         /\ entries' = IF Starts(added, r)
                                          THEN [entries EXCEPT ![r] = NewEntry(clientIds)]
                                          ELSE entries
                         /\ nextCalls' = IF Starts(added, r)
                                            THEN [nextCalls EXCEPT ![r] = @ + 1]
                                            ELSE nextCalls
                         /\ disk' = [disk EXCEPT !.consensus = requests']
                         /\ jr' = "OK"
                ELSE /\ jr' = "ERROR"
                     /\ UNCHANGED <<requests, entries, nextCalls, disk>>
    /\ UNCHANGED <<regVars, listVars, userStore, callVars, templates, aborting, nextRun, srvVars, cliVars,
                   abortedPending, abortDone, pollVars>>

\* a handler that runs the check of the quorum after every vote, counted or not
PostConsensusApproveRechecking(u, r) ==
    /\ IF HasRole(u, "approver") /\ requests[r].exists
          THEN LET voted == Approved(requests, r, u)
               IN  /\ requests' = Checked(voted, r)
                   /\ entries' = IF Starts(voted, r)
                                    THEN [entries EXCEPT ![r] = NewEntry(voted[r].ClientIds)]
                                    ELSE entries
                   /\ nextCalls' = IF Starts(voted, r)
                                      THEN [nextCalls EXCEPT ![r] = @ + 1]
                                      ELSE nextCalls
                   /\ disk' = [disk EXCEPT !.consensus = requests']
                   /\ jr' = "OK"
          ELSE /\ jr' = "ERROR"
               /\ UNCHANGED <<requests, entries, nextCalls, disk>>
    /\ UNCHANGED <<regVars, listVars, userStore, callVars, templates, aborting, nextRun, srvVars, cliVars,
                   abortedPending, abortDone, pollVars>>

\* POST /consensus/approve
PostConsensusApprove(u, r) ==
    /\ IF HasRole(u, "approver") /\ requests[r].exists
          THEN LET voted == Approved(requests, r, u)
                   counted == voted # requests
               IN  /\ requests' = IF counted THEN Checked(voted, r) ELSE voted
                   /\ entries' = IF counted /\ Starts(voted, r)
                                    THEN [entries EXCEPT ![r] = NewEntry(voted[r].ClientIds)]
                                    ELSE entries
                   /\ nextCalls' = IF counted /\ Starts(voted, r)
                                      THEN [nextCalls EXCEPT ![r] = @ + 1]
                                      ELSE nextCalls
                   /\ disk' = [disk EXCEPT !.consensus = requests']
                   /\ jr' = "OK"
          ELSE /\ jr' = "ERROR"
               /\ UNCHANGED <<requests, entries, nextCalls, disk>>
    /\ UNCHANGED <<regVars, listVars, userStore, callVars, templates, aborting, nextRun, srvVars, cliVars,
                   abortedPending, abortDone, pollVars>>

\* DELETE /consensus/request, up to the broadcast: the checks of the caller
DeleteConsensusRequest(u, r) ==
    /\ ~aborting.active
    /\ IF HasRole(u, "requester") /\ requests[r].exists
          /\ (HasRole(u, "admin") \/ requests[r].RequestUserId = u)
          THEN /\ aborting' = [active |-> TRUE, req |-> r, user |-> u, todo |-> agents]
               /\ UNCHANGED jr
          ELSE /\ jr' = "ERROR"
               /\ UNCHANGED aborting
    /\ UNCHANGED <<regVars, listVars, storeVars, callVars, templates, requests, entries, nextCalls, nextRun, srvVars, cliVars,
                   abortedPending, abortDone, pollVars>>

\* AgentStore.AbortConsensusExecution: one turn of its loop over the agents
AbortConsensusExecution(a) ==
    /\ aborting.active /\ a \in aborting.todo
    /\ AbortExecution(a, aborting.req)
    /\ aborting' = [aborting EXCEPT !.todo = @ \ {a}]
    /\ UNCHANGED <<regVars, listVars, storeVars, callVars, templates, requests, entries, nextCalls, nextRun,
                   AuthToken, Cmds, CmdChan, cmd, tokens, cliVars, abortDone, pollVars, jr>>

\* server.consensus.Abort(req, user), and the handler returns
ConsensusAbort ==
    /\ aborting.active /\ aborting.todo = {}
    /\ requests' = [requests EXCEPT ![aborting.req].state = "Aborted"]
    /\ entries' = [entries EXCEPT ![aborting.req] = NoEntry]
    /\ abortDone' = abortDone \cup {aborting.req}
    /\ aborting' = NoAbort
    /\ disk' = [disk EXCEPT !.consensus = requests']
    /\ jr' = "OK"
    /\ UNCHANGED <<regVars, listVars, userStore, callVars, templates, nextCalls, nextRun, srvVars, cliVars,
                   abortedPending, pollVars>>

(***************************************************************************)
(* The execution coordinator: entry.Next() and the waves of a rollout      *)
(***************************************************************************)
Min(x, y) == IF x < y THEN x ELSE y

\* the wave size of iteration i, with `remaining` agents not yet dispatched
WaveSize(strategy, i, remaining) ==
    CASE strategy = "SimpleExecutionStrategy" -> remaining
      [] strategy = "OneTestExecutionStrategy" -> IF i = 0 THEN Min(1, remaining) ELSE remaining
      [] strategy = "RollingExecutionStrategy" -> Min(1, remaining)
      [] strategy = "ExponentialRollingExecutionStrategy" -> Min(2 ^ i, remaining)
      [] OTHER -> 0

\* a command the abort removed from the in-flight map counts as terminal
InflightTerminal(r, a) ==
    \/ <<r, a>> \notin DispatchedCmds[a]
    \/ cmd[<<r, a>>].state \in Terminal

\* the agents of the wave whose command ended terminal and not OK
WaveFailed(r) ==
    {a \in entries[r].inflightAgents :
        InflightTerminal(r, a)
        /\ ~(<<r, a>> \in DispatchedCmds[a] /\ cmd[<<r, a>>].state = "finished")}

\* a coordinator that judges the wave by the commands that have ended so far
WaveVerdictOfEnded(r) ==
    IF WaveFailed(r) # {} THEN "failed" ELSE "ok"

\* Next() blocks until every in-flight command of the wave is terminal; then
\* the wave is OK when every command of it is finished
WaveVerdict(r) ==
    IF \E a \in entries[r].inflightAgents : ~InflightTerminal(r, a) THEN "wait"
    ELSE IF WaveFailed(r) # {} THEN "failed"
    ELSE "ok"

StrategyOfRequest(r) == templates[requests[r].TemplateId].Strategy

\* entry.Next(), up to the first Submit: the wave is judged, the next one picked
NextBegin(r) ==
    /\ nextCalls[r] > 0
    /\ ~nextRun.active
    /\ entries[r].exists => WaveVerdict(r) # "wait"
    /\ nextCalls' = [nextCalls EXCEPT ![r] = @ - 1]
    /\ IF ~entries[r].exists \/ requests[r].state \notin {"Approved", "Executing"}
          THEN UNCHANGED <<requests, entries, nextRun>>
          ELSE LET e == entries[r]
                   bad == WaveFailed(r)
                   ok == e.inflightAgents \ bad
                   judged == [e EXCEPT !.inflightAgents = {},
                                       !.completedAgents = @ \cup ok,
                                       !.failedAgents = @ \cup bad]
                   i == IF e.started THEN e.iteration + 1 ELSE 0
                   n == WaveSize(StrategyOfRequest(r), i, Len(e.pendingAgents))
                   wave == SubSeq(e.pendingAgents, 1, n)
               IN  IF WaveVerdict(r) = "failed"
                      /\ StrategyOfRequest(r) # "SimpleExecutionStrategy"
                      THEN /\ requests' = [requests EXCEPT ![r].state = "Aborted"]
                           /\ entries' = [entries EXCEPT ![r] = NoEntry]
                           /\ UNCHANGED nextRun
                   ELSE IF e.pendingAgents = <<>>
                      THEN /\ requests' = [requests EXCEPT ![r].state =
                                              IF judged.failedAgents = {} THEN "Completed" ELSE @]
                           /\ entries' = [entries EXCEPT ![r] = judged]
                           /\ UNCHANGED nextRun
                   ELSE /\ requests' = [requests EXCEPT ![r].state = "Executing"]
                        /\ entries' = [entries EXCEPT ![r] =
                              [judged EXCEPT !.started = TRUE, !.iteration = i,
                                             !.pendingAgents = SubSeq(@, n + 1, Len(@))]]
                        /\ nextRun' = [active |-> TRUE, req |-> r, iteration |-> i,
                                       todo |-> wave, sending |-> 0]
    /\ disk' = IF requests' # requests THEN [disk EXCEPT !.consensus = requests'] ELSE disk
    /\ UNCHANGED <<regVars, listVars, userStore, callVars, templates, aborting, cmdVars>>

\* a Submit that fills the maps and never signals
SubmitUnsignalled(a, c) ==
    /\ Cmds' = [Cmds EXCEPT ![a] = @ \cup {c.Id}]
    /\ DispatchedCmds' = [DispatchedCmds EXCEPT ![a] = @ \cup {c.Id}]
    /\ cmd' = [cmd EXCEPT ![c.Id] = c]
    /\ CmdChan' = CmdChan

\* RegisteredClient.Submit: both maps under the agent lock, then CmdChan <- true
Submit(a, c) ==
    /\ Cmds' = [Cmds EXCEPT ![a] = @ \cup {c.Id}]
    /\ DispatchedCmds' = [DispatchedCmds EXCEPT ![a] = @ \cup {c.Id}]
    /\ cmd' = [cmd EXCEPT ![c.Id] = c]
    /\ CmdChan' = [CmdChan EXCEPT ![a] = @ + 1]

\* newCmd and Sign: the command of request r for agent a, signed with a's token
NewCmd(r, a, iteration) ==
    LET t == requests[r].TemplateId
        id == <<r, a>>
    IN  [exists |-> TRUE, Id |-> id, ClientId |-> a, ConsensusRequestId |-> r,
         ExecutionIterationId |-> iteration, TemplateId |-> t,
         Command |-> templates[t].Command,
         Signature |-> ComputeHmac(AuthToken[a], templates[t].Command, id),
         state |-> "pending", Pending |-> TRUE,
         BufOutput |-> <<>>, BufOutputErr |-> <<>>]

\* entry.Next(), the wave: one command built, signed and submitted
NextSubmit ==
    /\ nextRun.active /\ nextRun.sending = 0 /\ nextRun.todo # <<>>
    /\ LET a == Head(nextRun.todo)
       IN  /\ Submit(a, NewCmd(nextRun.req, a, nextRun.iteration))
           /\ nextRun' = [nextRun EXCEPT !.todo = Tail(@), !.sending = a]
           /\ entries' = IF entries[nextRun.req].exists
                            THEN [entries EXCEPT ![nextRun.req].inflightAgents = @ \cup {a}]
                            ELSE entries
    /\ UNCHANGED <<regVars, listVars, storeVars, callVars, templates, requests, nextCalls, aborting,
                   AuthToken, tokens, cliVars, histVars>>

\* a command signed for the agent is on its way to it or waits for its check
Underway(a) ==
    \/ PendingOf(a) # {}
    \/ clientCmds[a] # <<>>
    \/ running[a].active /\ running[a].pc = "check"

\* POST /client/:clientId/auth of an agent that restarts. The restarts are
\* capped, and taken while a command is under way: at any other moment both
\* sides hold the new token before the next command is signed.
PostClientAuth(a) ==
    /\ a \in agents
    /\ tokens < MaxAgents + MaxRotations
    /\ Underway(a)
    /\ AuthServer(a)
    /\ reply' = "OK"
    /\ UNCHANGED <<regVars, listVars, storeVars, httpReq, reporting, reading, consVars, Cmds, DispatchedCmds, CmdChan, cmd,
                   clientCmds, running, histVars>>

(***************************************************************************)
(* The stores on disk, and the calls that are under way: none at the start *)
(***************************************************************************)
NoReq == [pc |-> "idle"]
NoReport == [active |-> FALSE]
NoRead == [active |-> FALSE]

\* what save() writes: the store as it is in memory. The files are read back
\* at the start only, by the stores' own load functions.
InMemory == [users |-> userStore, templates |-> templates, consensus |-> requests]

\* every account is enabled, the files hold what the stores hold, nothing runs
InitStoresAndCalls ==
    /\ userStore = [u \in Users |-> [Enabled |-> TRUE]]
    /\ disk = InMemory
    /\ reply = "none"
    /\ httpReq = NoReq
    /\ reporting = [a \in AgentIds |-> NoReport]
    /\ reading = [a \in AgentIds |-> NoRead]

(***************************************************************************)
(* Specification of the tag filter: any registry content, any call.        *)
(***************************************************************************)
InitList ==
    /\ agents \in SUBSET RegIds
    /\ Tags \in [AgentIds -> TagLists]
    /\ \A a \in AgentIds : a \notin agents => Tags[a] = <<>>
    /\ LastPing = [a \in AgentIds |-> 0]
    /\ now = 0
    /\ InitObjects
    /\ listArgs = NoCall
    /\ listRes = <<>>
    /\ InitNoConsensus
    /\ InitNoCommands
    /\ InitStoresAndCalls

\* one call per behaviour: List leaves the registry as it found it
NextList ==
    \E include \in TagLists, exclude \in TagLists :
        listArgs = NoCall /\ List(include, exclude)

SpecList == InitList /\ [][NextList]_vars

(***************************************************************************)
(* Specification of presence: pings, the clock and the minutely sweep.     *)
(***************************************************************************)
InitSweep ==
    /\ agents = {}
    /\ Tags = [a \in AgentIds |-> <<>>]
    /\ LastPing = [a \in AgentIds |-> 0]
    /\ now = 0
    /\ InitObjects
    /\ listArgs = NoCall
    /\ listRes = <<>>
    /\ InitNoConsensus
    /\ InitNoCommands
    /\ InitStoresAndCalls

NextSweep ==
    \/ \E a \in RegIds : RegisterClient(a, <<>>)
    \/ Cleanup
    \/ Tick

SpecSweep == InitSweep /\ [][NextSweep]_vars

(***************************************************************************)
(* Specification of consensus: templates, requests, votes and aborts of a  *)
(* coordinator whose agents run nothing.                                   *)
(***************************************************************************)
InitConsensus ==
    /\ agents = {}
    /\ Tags = [a \in AgentIds |-> <<>>]
    /\ LastPing = [a \in AgentIds |-> 0]
    /\ now = 0
    /\ InitObjects
    /\ listArgs = NoCall
    /\ listRes = <<>>
    /\ InitNoConsensus
    /\ InitNoCommands
    /\ InitStoresAndCalls

\* strings.TrimSpace: the text without its leading and trailing white space
RECURSIVE TrimLeft(_)
TrimLeft(str) ==
    IF str # <<>> /\ Head(str) = " " THEN TrimLeft(Tail(str)) ELSE str

RECURSIVE TrimRight(_)
TrimRight(str) ==
    IF str # <<>> /\ str[Len(str)] = " " THEN TrimRight(SubSeq(str, 1, Len(str) - 1)) ELSE str

TrimSpace(str) == TrimRight(TrimLeft(str))

\* the reasons a user may type: " ab d ", " abc ", "    "
Reasons ==
    {<<" ", "a", "b", " ", "d", " ">>, <<" ", "a", "b", "c", " ">>, <<" ", " ", " ", " ">>}

NextConsensus ==
    \/ \E u \in Users, s \in {"rolling", "other"}, minAuth \in 0..MaxMinAuth :
          PostTemplate(u, s, minAuth)
    \/ \E u \in Users, totpValid \in BOOLEAN, reason \in Reasons, t \in TemplateIds :
          PostConsensusRequest(u, totpValid, Len(TrimSpace(reason)), t, <<1>>)
    \/ \E u \in Users, r \in ReqIds : PostConsensusApprove(u, r)
    \/ \E u \in Users, r \in ReqIds : DeleteConsensusRequest(u, r)
    \/ ConsensusAbort

SpecConsensus == InitConsensus /\ [][NextConsensus]_vars

(***************************************************************************)
(* Specification of a rollout: one request over all agents, its template   *)
(* of any strategy, agents that poll, execute and report.                  *)
(***************************************************************************)
\* a template of each strategy, with one rule: the output must contain LineOk
RolloutTemplates ==
    {AddValidationRule(newTemplate(s, 1), newExecutionValidation(LineOk, TRUE, TRUE, 1)) :
        s \in StrategyNames}

\* the selection of a request: every agent, against the order of the ids
RequestOrder == [i \in 1..MaxAgents |-> MaxAgents + 1 - i]

InitAgents ==
    /\ agents = AgentIds
    /\ Tags = [a \in AgentIds |-> <<>>]
    /\ LastPing = [a \in AgentIds |-> 0]
    /\ now = 0
    /\ InitObjects
    /\ listArgs = NoCall
    /\ listRes = <<>>
    /\ AuthToken = [a \in AgentIds |-> a]
    /\ clientToken = [a \in AgentIds |-> a]
    /\ tokens = MaxAgents
    /\ CmdChan = [a \in AgentIds |-> 0]
    /\ clientCmds = [a \in AgentIds |-> <<>>]
    /\ running = [a \in AgentIds |-> NotRunning]
    /\ abortedPending = {}
    /\ abortDone = {}
    /\ returned = [c \in CmdIds |-> 0]
    /\ lastPoll = [a \in AgentIds |-> "none"]
    /\ jr = "none"

InitNoCmds ==
    /\ Cmds = [a \in AgentIds |-> {}]
    /\ DispatchedCmds = [a \in AgentIds |-> {}]
    /\ cmd = [c \in CmdIds |-> NoCmd]

InitRollout ==
    /\ InitAgents
    /\ InitNoCmds
    /\ \E tpl \in RolloutTemplates :
          templates = [t \in TemplateIds |-> IF t = 1 THEN tpl ELSE NoTemplate]
    /\ requests = [r \in ReqIds |->
                        IF r = 1 THEN [exists |-> TRUE, TemplateId |-> 1, ClientIds |-> RequestOrder,
                                       RequestUserId |-> "u1", ApproveUserIds |-> {},
                                       state |-> "Pending"]
                        ELSE NoRequest]
    /\ entries = [r \in ReqIds |-> NoEntry]
    /\ nextCalls = [r \in ReqIds |-> 0]
    /\ aborting = NoAbort
    /\ nextRun = NoRun
    /\ InitStoresAndCalls

AgentStep(a) ==
    \/ ClientCmds(a)
    \/ ExecuteValidating(a)
    \/ ExecuteCheck(a)
    \/ ExecuteReauth(a)
    \/ ExecuteStart(a)
    \/ ExecuteWait(a)
    \/ ExecuteFlush(a)
    \/ PostClientAuth(a)

NextRollout ==
    \/ PostConsensusApprove("u2", 1)
    \/ NextBegin(1)
    \/ NextSubmit
    \/ \E a \in AgentIds : AgentStep(a)

SpecRollout == InitRollout /\ [][NextRollout]_vars

(***************************************************************************)
(* Specification of an abort: the rollout, and a user who deletes the      *)
(* request at any moment of it.                                            *)
(***************************************************************************)
InitAbort ==
    /\ InitAgents
    /\ InitNoCmds
    /\ \E s \in StrategyNames :
          templates = [t \in TemplateIds |-> IF t = 1 THEN newTemplate(s, 1) ELSE NoTemplate]
    /\ requests = [r \in ReqIds |->
                     IF r = 1 THEN [exists |-> TRUE, TemplateId |-> 1,
                                    ClientIds |-> <<1, 2>>,
                                    RequestUserId |-> "u1", ApproveUserIds |-> {},
                                    state |-> "Pending"]
                     ELSE NoRequest]
    /\ entries = [r \in ReqIds |-> NoEntry]
    /\ nextCalls = [r \in ReqIds |-> 0]
    /\ aborting = NoAbort
    /\ nextRun = NoRun
    /\ InitStoresAndCalls

NextAbort ==
    \/ NextRollout
    \/ \E u \in Users : 1 \notin abortDone /\ DeleteConsensusRequest(u, 1)
    \/ \E a \in AgentIds : AbortConsensusExecution(a)
    \/ ConsensusAbort

SpecAbort == InitAbort /\ [][NextAbort]_vars

(***************************************************************************)
(* Specification of the state reports: a wave in flight on every agent,    *)
(* and callers that report any state for any command.                      *)
(***************************************************************************)
CmdStates ==
    {"pending", "validating", "starting", "started_execution", "finished_execution",
     "failed_execution", "killed_execution", "flushed_logs", "finished", "failed",
     "failed_validation", "invalid_signature"}

InitCmdState ==
    /\ InitAgents
    /\ Cmds = [a \in AgentIds |-> IF a \in RegIds THEN {<<1, a>>} ELSE {}]
    /\ DispatchedCmds = [a \in AgentIds |-> IF a \in RegIds THEN {<<1, a>>} ELSE {}]
    /\ \E tpl \in RolloutTemplates :
          /\ tpl.StrategyStr = "simple"
          /\ templates = [t \in TemplateIds |-> IF t = 1 THEN tpl ELSE NoTemplate]
          /\ cmd = [c \in CmdIds |->
                      IF c[1] = 1 /\ c[2] \in RegIds
                         THEN [exists |-> TRUE, Id |-> c, ClientId |-> c[2],
                               ConsensusRequestId |-> 1, ExecutionIterationId |-> 0,
                               TemplateId |-> 1, Command |-> tpl.Command,
                               Signature |-> ComputeHmac(c[2], tpl.Command, c),
                               state |-> "pending", Pending |-> FALSE,
                               BufOutput |-> IF c[2] = 1 THEN <<LineOk>> ELSE <<>>,
                               BufOutputErr |-> <<>>]
                         ELSE NoCmd]
    /\ requests = [r \in ReqIds |->
                     IF r = 1 THEN [exists |-> TRUE, TemplateId |-> 1,
                                    ClientIds |-> [i \in 1..RegAgents |-> i],
                                    RequestUserId |-> "u1", ApproveUserIds |-> {"u2"},
                                    state |-> "Executing"]
                     ELSE NoRequest]
    /\ entries = [r \in ReqIds |->
                    IF r = 1 THEN [NewEntry(<<>>) EXCEPT !.started = TRUE,
                                                         !.inflightAgents = RegIds]
                    ELSE NoEntry]
    /\ nextCalls = [r \in ReqIds |-> 0]
    /\ aborting = NoAbort
    /\ nextRun = NoRun
    /\ InitStoresAndCalls

NextCmdState ==
    \E a \in AgentIds, id \in CmdIds, state \in CmdStates :
        /\ \A r \in ReqIds : nextCalls[r] < MaxNextCalls
        /\ PutClientCmdState(a, id, state)

SpecCmdState == InitCmdState /\ [][NextCmdState]_vars

(***************************************************************************)
(* Specification of Execute: agents that are handed any command, signed    *)
(* with any token, or not signed at all.                                   *)
(***************************************************************************)
Received(a) ==
    {[Id |-> <<1, a>>, Command |-> c, Signature |-> sig] :
        c \in {CommandOf(1), CommandOf(2)},
        sig \in {NoSignature} \cup
                {ComputeHmac(k, d, <<1, a>>) : k \in AgentIds, d \in {CommandOf(1), CommandOf(2)}}}

InitExecute ==
    /\ agents = AgentIds
    /\ Tags = [a \in AgentIds |-> <<>>]
    /\ LastPing = [a \in AgentIds |-> 0]
    /\ now = 0
    /\ InitObjects
    /\ listArgs = NoCall
    /\ listRes = <<>>
    /\ InitNoConsensus
    /\ AuthToken = [a \in AgentIds |-> a]
    /\ clientToken = [a \in AgentIds |-> a]
    /\ tokens = MaxAgents
    /\ Cmds = [a \in AgentIds |-> {}]
    /\ DispatchedCmds = [a \in AgentIds |-> {}]
    /\ CmdChan = [a \in AgentIds |-> 0]
    /\ cmd = [c \in CmdIds |-> NoCmd]
    /\ \E c1 \in Received(1), c2 \in Received(2) :
          clientCmds = [a \in AgentIds |->
                          IF a = 1 THEN <<c1>> ELSE IF a = 2 THEN <<c2>> ELSE <<>>]
    /\ running = [a \in AgentIds |-> NotRunning]
    /\ abortedPending = {}
    /\ abortDone = {}
    /\ returned = [c \in CmdIds |-> 0]
    /\ lastPoll = [a \in AgentIds |-> "none"]
    /\ jr = "none"
    /\ InitStoresAndCalls

NextExecute ==
    \E a \in AgentIds :
        \/ ExecuteValidating(a)
        \/ ExecuteCheck(a)
        \/ ExecuteReauth(a)
        \/ ExecuteStart(a)
        \/ ExecuteWait(a)
        \/ ExecuteFlush(a)

SpecExecute == InitExecute /\ [][NextExecute]_vars

(***************************************************************************)
(* Specification of validation: a command in finished_execution with any   *)
(* buffers, under a template with any rules; the agent reports             *)
(* flushed_logs, and an admin may delete the template before it does.      *)
(***************************************************************************)
\* the lines of a buffer, and the texts of a rule: "3", "21", "312"; "1", "12"
ValLines == {<<3>>, <<2, 1>>, <<3, 1, 2>>}
ValTexts == {<<1>>, <<1, 2>>}
ValStreams == {<<>>} \cup {<<l>> : l \in ValLines} \cup {<<<<3>>, <<2, 1>>>>}

\* the rules as the template file holds them
ValRules ==
    [Fatal : {TRUE}, MustContain : BOOLEAN, Text : ValTexts, OutputStream : {1, 2}]

ValRuleLists == UNION {[1..n -> ValRules] : n \in 0..MaxRules}

InitValidate ==
    /\ InitAgents
    /\ Cmds = [a \in AgentIds |-> IF a = 1 THEN {<<1, 1>>} ELSE {}]
    /\ DispatchedCmds = [a \in AgentIds |-> IF a = 1 THEN {<<1, 1>>} ELSE {}]
    /\ \E rules \in ValRuleLists, out \in ValStreams, err \in ValStreams :
          /\ templates = [t \in TemplateIds |->
                            IF t = 1 THEN [newTemplate("simple", 1) EXCEPT !.ValidationRules = rules]
                            ELSE NoTemplate]
          /\ cmd = [c \in CmdIds |->
                      IF c = <<1, 1>>
                         THEN [exists |-> TRUE, Id |-> c, ClientId |-> 1,
                               ConsensusRequestId |-> 1, ExecutionIterationId |-> 0,
                               TemplateId |-> 1, Command |-> CommandOf(1),
                               Signature |-> ComputeHmac(1, CommandOf(1), c),
                               state |-> "finished_execution", Pending |-> FALSE,
                               BufOutput |-> out, BufOutputErr |-> err]
                         ELSE NoCmd]
    /\ requests = [r \in ReqIds |->
                     IF r = 1 THEN [exists |-> TRUE, TemplateId |-> 1, ClientIds |-> <<1>>,
                                    RequestUserId |-> "u1", ApproveUserIds |-> {"u2"},
                                    state |-> "Executing"]
                     ELSE NoRequest]
    /\ entries = [r \in ReqIds |->
                    IF r = 1 THEN [NewEntry(<<>>) EXCEPT !.started = TRUE, !.inflightAgents = {1}]
                    ELSE NoEntry]
    /\ nextCalls = [r \in ReqIds |-> 0]
    /\ aborting = NoAbort
    /\ nextRun = NoRun
    /\ InitStoresAndCalls

NextValidate ==
    \/ PutClientCmdState(1, <<1, 1>>, "flushed_logs")
    \/ \E u \in Users : DeleteTemplate(u, 1)

SpecValidate == InitValidate /\ [][NextValidate]_vars

(***************************************************************************)
(* Specification of the long poll: registered agents, the second of them   *)
(* with or without a token, submitters that hand them commands, and the    *)
(* agents' loops of polling and executing.                                 *)
(***************************************************************************)
\* the agents that have registered: agent 1 has a token, agent 2 may have none
PollAgents == {1, 2}

InitPoll ==
    /\ agents = PollAgents
    /\ Tags = [a \in AgentIds |-> <<>>]
    /\ LastPing = [a \in AgentIds |-> 0]
    /\ now = 0
    /\ InitObjects
    /\ listArgs = NoCall
    /\ listRes = <<>>
    /\ templates = [t \in TemplateIds |-> IF t = 1 THEN newTemplate("simple", 1) ELSE NoTemplate]
    /\ requests = [r \in ReqIds |-> NoRequest]
    /\ entries = [r \in ReqIds |-> NoEntry]
    /\ nextCalls = [r \in ReqIds |-> 0]
    /\ aborting = NoAbort
    /\ nextRun = NoRun
    /\ \E authed \in {PollAgents, PollAgents \ {2}} :
          /\ AuthToken = [a \in AgentIds |-> IF a \in authed THEN a ELSE 0]
          /\ clientToken = [a \in AgentIds |-> IF a \in authed THEN a ELSE 0]
    /\ tokens = MaxAgents
    /\ CmdChan = [a \in AgentIds |-> 0]
    /\ clientCmds = [a \in AgentIds |-> <<>>]
    /\ running = [a \in AgentIds |-> NotRunning]
    /\ abortedPending = {}
    /\ abortDone = {}
    /\ returned = [c \in CmdIds |-> 0]
    /\ lastPoll = [a \in AgentIds |-> "none"]
    /\ jr = "none"
    /\ InitNoCmds
    /\ InitStoresAndCalls

\* the commands submitted so far
Submitted == {id \in CmdIds : cmd[id].exists}

\* newCmd and Sign for agent a, under a fresh id
PollCmd(id, a) ==
    [exists |-> TRUE, Id |-> id, ClientId |-> a, ConsensusRequestId |-> id[1],
     ExecutionIterationId |-> 0, TemplateId |-> 1,
     Command |-> templates[1].Command,
     Signature |-> ComputeHmac(AuthToken[a], templates[1].Command, id),
     state |-> "pending", Pending |-> TRUE,
     BufOutput |-> <<>>, BufOutputErr |-> <<>>]

\* a goroutine calls client.Submit(cmd), and blocks on the channel
SubmitCmd(a) ==
    /\ a \in agents
    /\ Cardinality(Submitted) < MaxSubmits
    /\ Submit(a, PollCmd(<<1, Cardinality(Submitted) + 1>>, a))
    /\ UNCHANGED <<regVars, listVars, storeVars, callVars, consVars, AuthToken, tokens, cliVars, histVars>>

\* cmd.Execute() of PollCmds, for a command whose signature is valid
AgentRuns(a) ==
    \/ ExecuteValidating(a)
    \/ ExecuteCheck(a)
    \/ ExecuteStart(a)
    \/ ExecuteWait(a)
    \/ ExecuteFlush(a)

NextPoll ==
    \/ \E a \in AgentIds : SubmitCmd(a)
    \/ \E a \in AgentIds : ClientCmds(a)
    \/ \E a \in AgentIds : ClientCmdsTimeout(a)
    \/ \E a \in AgentIds : ClientCmdsRejected(a)
    \/ \E a \in AgentIds : AgentRuns(a)

SpecPoll == InitPoll /\ [][NextPoll]_vars

\* the agents keep polling and go on with what they execute; a select with a
\* sender waiting takes the receive
SpecPollLive ==
    /\ SpecPoll
    /\ \A a \in AgentIds : WF_vars(ClientCmds(a))
    /\ \A a \in AgentIds : WF_vars(AgentRuns(a))

(***************************************************************************)
(* Specification of the logs: a process has ended, Execute logs its output *)
(* line by line, uploads the buffers when they are long and at the end,    *)
(* and reports flushed_logs. A request of the agent reaches the            *)
(* coordinator, or fails for good once Client._req has given up.           *)
(***************************************************************************)
\* if len(c.BufOutput) > 10 || len(c.BufOutputErr) > 10 { c._flushLogs() }
FlushLines == 10

\* the k-th line of the output and of the error output of the process
OutLine(k) == <<1, k>>
ErrLine(k) == <<2, k>>

\* a flush that empties the buffers before it sends them
FlushLogsClearingFirst(a, c, delivered) ==
    IF Len(c.Signature) < 1
        THEN /\ running' = [running EXCEPT ![a] = c]
             /\ UNCHANGED cmd
        ELSE /\ cmd' = IF delivered
                          THEN CmdAfterLogs(cmd, a, c.Id, <<>>, <<>>)
                          ELSE cmd
             /\ running' = [running EXCEPT ![a] =
                               [c EXCEPT !.BufOutput = <<>>, !.BufOutputErr = <<>>,
                                         !.failedWrite = @ \/ ~delivered]]

\* _flushLogs of the agent's Cmd c: local commands are left alone; the
\* buffers of a signed one are sent, "Failed log write" is logged when the
\* PUT has failed, and the buffers are emptied whatever became of it
FlushLogs(a, c, delivered) ==
    IF Len(c.Signature) < 1
        THEN /\ running' = [running EXCEPT ![a] = c]
             /\ UNCHANGED cmd
        ELSE /\ cmd' = IF delivered
                          THEN CmdAfterLogs(cmd, a, c.Id, c.BufOutput, c.BufOutputErr)
                          ELSE cmd
             /\ running' = [running EXCEPT ![a] =
                               [c EXCEPT !.BufOutput = <<>>, !.BufOutputErr = <<>>,
                                         !.failedWrite = @ \/ ~delivered]]

\* _checkFlushLogs
CheckFlushLogs(a, c) ==
    IF Len(c.BufOutput) > FlushLines \/ Len(c.BufOutputErr) > FlushLines
        THEN \E delivered \in BOOLEAN : FlushLogs(a, c, delivered)
        ELSE /\ running' = [running EXCEPT ![a] = c]
             /\ UNCHANGED cmd

\* for _, line := range strings.Split(out.String(), "\n") { c.LogOutput(line) }
LogOutput(a) ==
    /\ running[a].active /\ running[a].pc = "logout"
    /\ LET c == running[a]
           line == c.out[c.i]
           last == c.i = Len(c.out)
           logged == [c EXCEPT !.BufOutput = Append(@, line),
                               !.i = IF last THEN 1 ELSE @ + 1,
                               !.pc = IF last THEN "logerr" ELSE @]
       IN  CheckFlushLogs(a, logged)
    /\ UNCHANGED <<regVars, listVars, storeVars, callVars, consVars, AuthToken, Cmds,
                   DispatchedCmds, CmdChan, tokens, clientToken, clientCmds, histVars>>

\* for _, line := range strings.Split(outerr.String(), "\n") { c.LogError(line) }
LogError(a) ==
    /\ running[a].active /\ running[a].pc = "logerr"
    /\ LET c == running[a]
           line == c.outerr[c.i]
           last == c.i = Len(c.outerr)
           logged == [c EXCEPT !.BufOutputErr = Append(@, line),
                               !.i = IF last THEN 1 ELSE @ + 1,
                               !.pc = IF last THEN "final" ELSE @]
       IN  CheckFlushLogs(a, logged)
    /\ UNCHANGED <<regVars, listVars, storeVars, callVars, consVars, AuthToken, Cmds,
                   DispatchedCmds, CmdChan, tokens, clientToken, clientCmds, histVars>>

\* // Final flush: c._flushLogs()
FinalFlush(a) ==
    /\ running[a].active /\ running[a].pc = "final"
    /\ \E delivered \in BOOLEAN :
          FlushLogs(a, [running[a] EXCEPT !.pc = "notify"], delivered)
    /\ UNCHANGED <<regVars, listVars, storeVars, callVars, consVars, AuthToken, Cmds,
                   DispatchedCmds, CmdChan, tokens, clientToken, clientCmds, histVars>>

\* c.NotifyServer("flushed_logs"), the last statement of Execute
NotifyFlushed(a) ==
    /\ running[a].active /\ running[a].pc = "notify"
    /\ \E delivered \in BOOLEAN :
          IF delivered
             THEN NotifyServer(a, "flushed_logs")
             ELSE UNCHANGED <<cmd, nextCalls>>
    /\ running' = [running EXCEPT ![a] = NotRunning]
    /\ UNCHANGED <<regVars, listVars, storeVars, callVars, templates, requests, entries,
                   aborting, nextRun, AuthToken, Cmds, DispatchedCmds, CmdChan, tokens,
                   clientToken, clientCmds, histVars>>

\* the agent of the specification, and the ways its process has ended
LogAgent == 1
LogEnds == {"finished_execution", "failed_execution"}

InitLog ==
    /\ agents = AgentIds
    /\ Tags = [a \in AgentIds |-> <<>>]
    /\ LastPing = [a \in AgentIds |-> 0]
    /\ now = 0
    /\ InitObjects
    /\ listArgs = NoCall
    /\ listRes = <<>>
    /\ AuthToken = [a \in AgentIds |-> a]
    /\ clientToken = [a \in AgentIds |-> a]
    /\ tokens = MaxAgents
    /\ CmdChan = [a \in AgentIds |-> 0]
    /\ clientCmds = [a \in AgentIds |-> <<>>]
    /\ abortedPending = {}
    /\ abortDone = {}
    /\ returned = [c \in CmdIds |-> 0]
    /\ lastPoll = [a \in AgentIds |-> "none"]
    /\ jr = "none"
    /\ \E tpl \in RolloutTemplates :
          /\ tpl.StrategyStr = "simple"
          /\ templates = [t \in TemplateIds |-> IF t = 1 THEN tpl ELSE NoTemplate]
    /\ requests = [r \in ReqIds |->
                     IF r = 1 THEN [exists |-> TRUE, TemplateId |-> 1, ClientIds |-> <<LogAgent>>,
                                    RequestUserId |-> "u1", ApproveUserIds |-> {"u2"},
                                    state |-> "Executing"]
                     ELSE NoRequest]
    /\ entries = [r \in ReqIds |->
                    IF r = 1 THEN [NewEntry(<<>>) EXCEPT !.started = TRUE,
                                                         !.inflightAgents = {LogAgent}]
                    ELSE NoEntry]
    /\ nextCalls = [r \in ReqIds |-> 0]
    /\ aborting = NoAbort
    /\ nextRun = NoRun
    /\ \E end \in LogEnds, signed \in BOOLEAN, n \in 1..MaxLines, m \in 1..MaxLines :
          LET id == <<1, LogAgent>>
              mine == [a \in AgentIds |-> IF a = LogAgent /\ signed THEN {id} ELSE {}]
          IN  /\ Cmds = mine
              /\ DispatchedCmds = mine
              /\ cmd = [c \in CmdIds |->
                          IF c = id /\ signed
                             THEN [exists |-> TRUE, Id |-> c, ClientId |-> LogAgent,
                                   ConsensusRequestId |-> 1, ExecutionIterationId |-> 0,
                                   TemplateId |-> 1, Command |-> CommandOf(1),
                                   Signature |-> ComputeHmac(LogAgent, CommandOf(1), id),
                                   state |-> end, Pending |-> FALSE,
                                   BufOutput |-> <<>>, BufOutputErr |-> <<>>]
                             ELSE NoCmd]
              /\ running = [a \in AgentIds |->
                              IF a = LogAgent
                                 THEN [active |-> TRUE, Id |-> id, Command |-> CommandOf(1),
                                       Signature |-> IF signed
                                                        THEN ComputeHmac(LogAgent, CommandOf(1), id)
                                                        ELSE NoSignature,
                                       state |-> end, pc |-> "logout",
                                       BufOutput |-> <<>>,
                                       BufOutputErr |-> IF end = "failed_execution"
                                                           THEN <<LineExit>> ELSE <<>>,
                                       out |-> [k \in 1..n |-> OutLine(k)],
                                       outerr |-> [k \in 1..m |-> ErrLine(k)],
                                       i |-> 1, failedWrite |-> FALSE]
                                 ELSE NotRunning]
    /\ InitStoresAndCalls

NextLog ==
    \/ LogOutput(LogAgent)
    \/ LogError(LogAgent)
    \/ FinalFlush(LogAgent)
    \/ NotifyFlushed(LogAgent)

SpecLog == InitLog /\ [][NextLog]_vars

(***************************************************************************)
(* Specification of the agent's requests: Client._req tries a request,     *)
(* sleeps after an attempt that returned an error, and gives up when the   *)
(* loop is over. What the network and the coordinator do to an attempt is  *)
(* any of ReqOutcomes.                                                     *)
(***************************************************************************)
\* for i := 0; i < 10; i++
Retries == 10
\* rand.Intn(50): the least and the greatest value
Jitters == {0, 49}
ReqMethods == {"GET", "PUT"}
\* the errors of http.NewRequest, client.Do and ioutil.ReadAll
ReqErrors == {"request", "network", "read"}
ReqStatuses == {200, 404, 500, 503}
\* an attempt ends with an error and no response, or with a response
ReqOutcomes ==
    {[err |-> e, status |-> 0] : e \in ReqErrors}
        \cup {[err |-> "none", status |-> s] : s \in ReqStatuses}
NoOutcome == [err |-> "none", status |-> 0]

\* _reqUnsafe: nil and the error, or the body and nil; the status code of
\* the response is not read. A body is written as the status it came with,
\* and nil as 0.
ReqUnsafe(o) ==
    IF o.err # "none"
        THEN [bytes |-> 0, err |-> o.err]
        ELSE [bytes |-> o.status, err |-> "none"]

\* _req is called: var bytes []byte = nil; var err error = nil; i := 0
ReqStart(method) ==
    /\ httpReq.pc \in {"idle", "done"}
    /\ httpReq' = [pc |-> "try", method |-> method, i |-> 0, tries |-> 0,
                   last |-> NoOutcome, bytes |-> 0, err |-> "none", slept |-> 0]
    /\ UNCHANGED <<regVars, listVars, consVars, cmdVars, storeVars, reply, reporting,
                   reading>>

\* bytes, err = s._reqUnsafe(method, uri, data); if err == nil { return }
ReqAttempt(o) ==
    /\ httpReq.pc = "try"
    /\ LET r == ReqUnsafe(o)
       IN  httpReq' = [httpReq EXCEPT !.tries = @ + 1, !.last = o,
                                      !.bytes = r.bytes, !.err = r.err,
                                      !.pc = IF r.err = "none" THEN "done" ELSE "sleep"]
    /\ UNCHANGED <<regVars, listVars, consVars, cmdVars, storeVars, reply, reporting,
                   reading>>

\* a loop that goes round once more
ReqSleepOnceMore(jitter) ==
    /\ httpReq.pc = "sleep"
    /\ httpReq' = [httpReq EXCEPT !.slept = 25 + jitter + httpReq.i * httpReq.i * 10000,
                                  !.i = @ + 1,
                                  !.pc = IF httpReq.i + 1 <= Retries THEN "try" ELSE "done"]
    /\ UNCHANGED <<regVars, listVars, consVars, cmdVars, storeVars, reply, reporting,
                   reading>>

\* sleep := 25 + rand.Intn(50) + i^2 * 10000; time.Sleep; i++; and
\* return bytes, err when the loop is over
ReqSleep(jitter) ==
    /\ httpReq.pc = "sleep"
    /\ httpReq' = [httpReq EXCEPT !.slept = 25 + jitter + httpReq.i * httpReq.i * 10000,
                                  !.i = @ + 1,
                                  !.pc = IF httpReq.i + 1 < Retries THEN "try" ELSE "done"]
    /\ UNCHANGED <<regVars, listVars, consVars, cmdVars, storeVars, reply, reporting,
                   reading>>

InitReq == InitSweep

NextReq ==
    \/ \E method \in ReqMethods : ReqStart(method)
    \/ \E o \in ReqOutcomes : ReqAttempt(o)
    \/ \E jitter \in Jitters : ReqSleep(jitter)

SpecReq == InitReq /\ [][NextReq]_vars

(***************************************************************************)
(* Specification of the calls that name an unknown agent: agents ping, the *)
(* sweep removes agents, and the four handlers of an agent's calls are     *)
(* invoked with an id the registry does not hold.                          *)
(***************************************************************************)
\* client, _ := s.agentService.Get(clientId); return client.(*RegisteredClient):
\* Get returns a nil Agent for an unknown id and the assertion panics on it.
\* The router has no PanicHandler: net/http recovers, logs and closes the
\* connection, and no response is written.
GetClientPanics(a) == a \notin agents

\* GET /client/:clientId/cmds
ClientCmdsUnknown(a) ==
    /\ GetClientPanics(a)
    /\ reply' = "PANIC"
    /\ UNCHANGED <<regVars, listVars, consVars, cmdVars, storeVars, httpReq, reporting,
                   reading>>

\* PUT /client/:clientId/cmd/:cmd/state
PutClientCmdStateUnknown(a) ==
    /\ GetClientPanics(a)
    /\ reply' = "PANIC"
    /\ UNCHANGED <<regVars, listVars, consVars, cmdVars, storeVars, httpReq, reporting,
                   reading>>

\* PUT /client/:clientId/cmd/:cmd/logs
PutClientCmdLogsUnknown(a) ==
    /\ GetClientPanics(a)
    /\ reply' = "PANIC"
    /\ UNCHANGED <<regVars, listVars, consVars, cmdVars, storeVars, httpReq, reporting,
                   reading>>

\* POST /client/:clientId/auth
PostClientAuthUnknown(a) ==
    /\ GetClientPanics(a)
    /\ reply' = "PANIC"
    /\ UNCHANGED <<regVars, listVars, consVars, cmdVars, storeVars, httpReq, reporting,
                   reading>>

InitUnknown == InitSweep

NextUnknown ==
    \/ \E a \in RegIds : RegisterClient(a, <<>>)
    \/ Cleanup
    \/ Tick
    \/ \E a \in AgentIds : ClientCmdsUnknown(a)
    \/ \E a \in AgentIds : PutClientCmdStateUnknown(a)
    \/ \E a \in AgentIds : PutClientCmdLogsUnknown(a)
    \/ \E a \in AgentIds : PostClientAuthUnknown(a)

SpecUnknown == InitUnknown /\ [][NextUnknown]_vars

(***************************************************************************)
(* Specification of the reports against an abort: a wave in flight, agents *)
(* that report states and upload lines, and a user who deletes the         *)
(* request. A handler of a report reads the in-flight map under the        *)
(* agent's read lock, releases the lock, and works on the *Cmd it has      *)
(* read; the abort takes the write lock in between, before or after.       *)
(***************************************************************************)
\* the states the agents of the specification report
ReportStates == {"started_execution", "finished_execution", "flushed_logs"}

\* PutClientCmdState up to the RUnlock: cmd := registeredClient.DispatchedCmds[cmdId],
\* and the answer "Command not found" when it is nil
PutClientCmdStateLookup(a, id, state) ==
    /\ a \in agents /\ ~reporting[a].active
    /\ IF id \in DispatchedCmds[a]
          THEN /\ reporting' = [reporting EXCEPT ![a] =
                                  [active |-> TRUE, kind |-> "state", id |-> id,
                                   state |-> state, out |-> <<>>, err |-> <<>>]]
               /\ UNCHANGED reply
          ELSE /\ reply' = "ERROR"
               /\ UNCHANGED reporting
    /\ UNCHANGED <<regVars, listVars, consVars, cmdVars, storeVars, httpReq, reading>>

\* and from there: cmd.SetState(state); jr.OK()
PutClientCmdStateApply(a) ==
    /\ reporting[a].active /\ reporting[a].kind = "state"
    /\ LET id == reporting[a].id
           state == reporting[a].state
       IN  /\ cmd' = [cmd EXCEPT ![id] = SetState(cmd[id], state, TRUE)]
           /\ nextCalls' = IF StartsNextIteration(cmd[id], state)
                              THEN [nextCalls EXCEPT ![cmd[id].ConsensusRequestId] = @ + 1]
                              ELSE nextCalls
    /\ reply' = "OK"
    /\ reporting' = [reporting EXCEPT ![a] = NoReport]
    /\ UNCHANGED <<regVars, listVars, storeVars, httpReq, reading, templates, requests,
                   entries, aborting, nextRun, AuthToken, Cmds, DispatchedCmds, CmdChan,
                   tokens, cliVars, histVars>>

\* PutClientCmdLogs up to the RUnlock
PutClientCmdLogsLookup(a, id, out, err) ==
    /\ a \in agents /\ ~reporting[a].active
    /\ IF id \in DispatchedCmds[a]
          THEN /\ reporting' = [reporting EXCEPT ![a] =
                                  [active |-> TRUE, kind |-> "logs", id |-> id,
                                   state |-> "", out |-> out, err |-> err]]
               /\ UNCHANGED reply
          ELSE /\ reply' = "ERROR"
               /\ UNCHANGED reporting
    /\ UNCHANGED <<regVars, listVars, consVars, cmdVars, storeVars, httpReq, reading>>

\* and from there: the body is read and parsed, the lines are appended; jr.OK()
PutClientCmdLogsApply(a) ==
    /\ reporting[a].active /\ reporting[a].kind = "logs"
    /\ cmd' = [cmd EXCEPT ![reporting[a].id].BufOutput = @ \o reporting[a].out,
                          ![reporting[a].id].BufOutputErr = @ \o reporting[a].err]
    /\ reply' = "OK"
    /\ reporting' = [reporting EXCEPT ![a] = NoReport]
    /\ UNCHANGED <<regVars, listVars, storeVars, httpReq, reading, consVars, AuthToken,
                   Cmds, DispatchedCmds, CmdChan, tokens, cliVars, histVars>>

InitReport == InitCmdState

NextReport ==
    \/ \E a \in RegIds, id \in CmdIds, state \in ReportStates :
          /\ \A r \in ReqIds : nextCalls[r] < MaxNextCalls
          /\ PutClientCmdStateLookup(a, id, state)
    \/ \E a \in RegIds : PutClientCmdStateApply(a)
    \/ \E a \in RegIds, id \in CmdIds :
          /\ cmd[id].exists => Len(cmd[id].BufOutput) < MaxUploaded
          /\ PutClientCmdLogsLookup(a, id, <<LineOk>>, <<>>)
    \/ \E a \in RegIds : PutClientCmdLogsApply(a)
    \/ \E u \in Users : 1 \notin abortDone /\ DeleteConsensusRequest(u, 1)
    \/ \E a \in AgentIds : AbortConsensusExecution(a)
    \/ ConsensusAbort

SpecReport == InitReport /\ [][NextReport]_vars

(***************************************************************************)
(* Specification of the stores: the handlers of the consensus              *)
(* specification, the deletion of a template and the change of a user,     *)
(* each with the save() its code calls or does not call.                   *)
(***************************************************************************)
\* the keys of the form of PUT /user; "bogus" is a key the handler does not know
\* ("token", which the form also carries, is passed over as "username" is)
FormKeys == {"enable", "username", "bogus"}
\* the username is needed to come as far as the loop
Forms == {f \in SUBSET FormKeys : "username" \in f}
\* for key, _ := range r.PostForm visits the keys of a map, in any order
KeyOrders ==
    UNION {{o \in [1..Cardinality(f) -> f] :
               \A i, j \in 1..Cardinality(f) : o[i] = o[j] => i = j} : f \in Forms}

\* the loop of PutUser from the i-th key on: the store in memory, and
\* whether the loop came to its end
RECURSIVE PutUserFrom(_, _, _, _, _)
PutUserFrom(store, u, order, enable, i) ==
    IF i > Len(order) THEN [store |-> store, ok |-> TRUE]
    ELSE IF order[i] = "enable"
        THEN PutUserFrom([store EXCEPT ![u].Enabled = enable], u, order, enable, i + 1)
    ELSE IF order[i] \in {"username", "token"}
        THEN PutUserFrom(store, u, order, enable, i + 1)
    ELSE [store |-> store, ok |-> FALSE]

\* PUT /user by admin, for the user u of the store
PutUser(admin, totpValid, u, order, enable) ==
    /\ IF HasRole(admin, "admin") /\ totpValid
          THEN LET r == PutUserFrom(userStore, u, order, enable, 1)
               IN  /\ userStore' = r.store
                   /\ disk' = IF r.ok THEN [disk EXCEPT !.users = r.store] ELSE disk
                   /\ jr' = IF r.ok THEN "OK" ELSE "ERROR"
          ELSE /\ jr' = "ERROR"
               /\ UNCHANGED <<userStore, disk>>
    /\ UNCHANGED <<regVars, listVars, callVars, consVars, srvVars, cliVars,
                   abortedPending, abortDone, pollVars>>

InitStore == InitConsensus

NextStore ==
    \/ NextConsensus
    \/ \E u \in Users, t \in TemplateIds : DeleteTemplate(u, t)
    \/ \E admin \in {"u3", "u4"}, totpValid \in BOOLEAN, u \in {"u1"}, order \in KeyOrders,
          enable \in BOOLEAN :
          PutUser(admin, totpValid, u, order, enable)

SpecStore == InitStore /\ [][NextStore]_vars

(***************************************************************************)
(* Specification of the purge: an agent whose in-flight map holds commands *)
(* of any age, readers of the map, submitters of new commands, and the     *)
(* clock, here in seconds. GetDispatchedCmds reads the map under the read  *)
(* lock and, when it has seen an old command, writes its copy back under   *)
(* the write lock: a submitter may take the lock in between.               *)
(***************************************************************************)
\* maxAge := time.Now().Unix() - (14 * 86400)
PurgeAge == 14 * 86400
\* the time at the start: a command created at 0 is older than PurgeAge
PurgeStart == PurgeAge + 1
PurgeAgent == 1
\* the commands in flight at the start, and those submitted later
OldIds == {<<1, 1>>, <<1, 2>>}
NewIds == CmdIds \ OldIds

\* newCmd: Created: time.Now().Unix()
PurgeCmd(id, a, created) == PollCmd(id, a) @@ [Created |-> created]

\* a read that takes a command created exactly PurgeAge ago for an old one
GetDispatchedCmdsReadStrict(a) ==
    /\ a \in agents /\ ~reading[a].active
    /\ LET maxAge == now - PurgeAge
           newMap == {k \in DispatchedCmds[a] : cmd[k].Created > maxAge}
           dirty == \E k \in DispatchedCmds[a] : ~(cmd[k].Created > maxAge)
       IN  reading' = [reading EXCEPT ![a] =
                          [active |-> dirty, maxAge |-> maxAge, newMap |-> newMap,
                           seen |-> DispatchedCmds[a]]]
    /\ UNCHANGED <<regVars, listVars, consVars, cmdVars, storeVars, reply, httpReq,
                   reporting>>

\* GetDispatchedCmds up to the RUnlock, and its return when nothing is old;
\* seen is the map as the loop has found it
GetDispatchedCmdsRead(a) ==
    /\ a \in agents /\ ~reading[a].active
    /\ LET maxAge == now - PurgeAge
           newMap == {k \in DispatchedCmds[a] : cmd[k].Created >= maxAge}
           dirty == \E k \in DispatchedCmds[a] : ~(cmd[k].Created >= maxAge)
       IN  reading' = [reading EXCEPT ![a] =
                          [active |-> dirty, maxAge |-> maxAge, newMap |-> newMap,
                           seen |-> DispatchedCmds[a]]]
    /\ UNCHANGED <<regVars, listVars, consVars, cmdVars, storeVars, reply, httpReq,
                   reporting>>

\* if dirty { c.DispatchedCmds = newMap }; return newMap
GetDispatchedCmdsSwap(a) ==
    /\ reading[a].active
    /\ DispatchedCmds' = [DispatchedCmds EXCEPT ![a] = reading[a].newMap]
    /\ reading' = [reading EXCEPT ![a].active = FALSE]
    /\ UNCHANGED <<regVars, listVars, consVars, storeVars, reply, httpReq, reporting,
                   AuthToken, Cmds, CmdChan, cmd, tokens, cliVars, histVars>>

\* a command is built now and submitted to the agent
SubmitNow(a) ==
    /\ a \in agents
    /\ \E id \in NewIds :
          /\ ~cmd[id].exists
          /\ \A other \in NewIds : other[2] < id[2] => cmd[other].exists
          /\ Submit(a, PurgeCmd(id, a, now))
    /\ UNCHANGED <<regVars, listVars, storeVars, callVars, consVars, AuthToken, tokens,
                   cliVars, histVars>>

\* a second passes
TickPurge ==
    /\ now < PurgeStart + MaxPurgeTicks
    /\ now' = now + 1
    /\ UNCHANGED <<agents, LastPing, Tags, objects, pinging, listVars, storeVars, callVars, consVars,
                   cmdVars>>

InitPurge ==
    /\ agents = {PurgeAgent}
    /\ Tags = [a \in AgentIds |-> <<>>]
    /\ LastPing = [a \in AgentIds |-> 0]
    /\ now = PurgeStart
    /\ InitObjects
    /\ listArgs = NoCall
    /\ listRes = <<>>
    /\ templates = [t \in TemplateIds |-> IF t = 1 THEN newTemplate("simple", 1) ELSE NoTemplate]
    /\ requests = [r \in ReqIds |-> NoRequest]
    /\ entries = [r \in ReqIds |-> NoEntry]
    /\ nextCalls = [r \in ReqIds |-> 0]
    /\ aborting = NoAbort
    /\ nextRun = NoRun
    /\ AuthToken = [a \in AgentIds |-> a]
    /\ clientToken = [a \in AgentIds |-> a]
    /\ tokens = MaxAgents
    /\ CmdChan = [a \in AgentIds |-> 0]
    /\ clientCmds = [a \in AgentIds |-> <<>>]
    /\ running = [a \in AgentIds |-> NotRunning]
    /\ abortedPending = {}
    /\ abortDone = {}
    /\ returned = [c \in CmdIds |-> 0]
    /\ lastPoll = [a \in AgentIds |-> "none"]
    /\ jr = "none"
    /\ \E held \in SUBSET OldIds, created \in [OldIds -> {0, 1, 2, PurgeStart}] :
          /\ Cmds = [a \in AgentIds |-> {}]
          /\ DispatchedCmds = [a \in AgentIds |-> IF a = PurgeAgent THEN held ELSE {}]
          /\ cmd = [c \in CmdIds |->
                      IF c \in held
                         THEN [PurgeCmd(c, PurgeAgent, created[c]) EXCEPT !.Pending = FALSE]
                         ELSE NoCmd]
    /\ InitStoresAndCalls

NextPurge ==
    \/ GetDispatchedCmdsRead(PurgeAgent)
    \/ GetDispatchedCmdsSwap(PurgeAgent)
    \/ SubmitNow(PurgeAgent)
    \/ TickPurge

SpecPurge == InitPurge /\ [][NextPurge]_vars

(***************************************************************************)
(* Specification of the purge among writers: as the specification of the   *)
(* purge, and the request of the commands may be aborted at any time.      *)
(***************************************************************************)
\* DELETE /consensus/request reaches the agent: AbortExecution for request 1,
\* the request of every command of this specification
AbortNow(a) ==
    /\ a \in agents
    /\ AbortExecution(a, 1)
    /\ UNCHANGED <<regVars, listVars, storeVars, callVars, consVars, AuthToken, Cmds,
                   CmdChan, cmd, tokens, cliVars, abortDone, pollVars, jr>>

NextPurgeRace ==
    \/ NextPurge
    \/ AbortNow(PurgeAgent)

SpecPurgeRace == InitPurge /\ [][NextPurgeRace]_vars

(***************************************************************************)
(* Specification of Commands: the list of an agent's commands in flight is *)
(* asked for while commands are submitted and the request is aborted.      *)
(* Commands sizes its result before it takes the read lock, and fills it   *)
(* under the lock.                                                         *)
(***************************************************************************)
\* an entry of the result that the loop has not assigned
NilCmd == <<>>
\* commands := make([]Command, len(c.DispatchedCmds)); i := 0
CommandsMake(a) ==
    /\ a \in agents /\ ~reading[a].active
    /\ reading' = [reading EXCEPT ![a] =
                      [active |-> TRUE, kind |-> "commands",
                       len |-> Cardinality(DispatchedCmds[a])]]
    /\ UNCHANGED <<regVars, listVars, consVars, cmdVars, storeVars, reply, httpReq,
                   reporting>>

\* c.mux.RLock(); the loop commands[i] = cmd; i++; return commands: the
\* assignment panics when i has come to the length of the slice
CommandsLoop(a) ==
    /\ reading[a].active /\ reading[a].kind = "commands"
    /\ LET m == DispatchedCmds[a]
           len == reading[a].len
       IN  \E o \in Orders(m) :
              reading' = [reading EXCEPT ![a] =
                 [active |-> FALSE, kind |-> "commands", len |-> len, inflight |-> m,
                  panic |-> Cardinality(m) > len,
                  commands |-> [i \in 1..len |->
                                  IF i <= Cardinality(m) THEN o[i] ELSE NilCmd]]]
    /\ UNCHANGED <<regVars, listVars, consVars, cmdVars, storeVars, reply, httpReq,
                   reporting>>

NextCommands ==
    \/ CommandsMake(PurgeAgent)
    \/ CommandsLoop(PurgeAgent)
    \/ SubmitNow(PurgeAgent)
    \/ AbortNow(PurgeAgent)

SpecCommands == InitPurge /\ [][NextCommands]_vars

(***************************************************************************)
(* Specification of the validation rules: admins create and delete the     *)
(* template, and users post rules for it with any form.                    *)
(***************************************************************************)
\* the texts of the form: "a", "c", " b", "  "
RuleTexts == {<<"a">>, <<"c">>, <<" ", "b">>, <<" ", " ">>}
\* the values of the form's fields fatal and must_contain
FormFlags == {"1", "0", ""}

\* POST /template/:templateid/validation: any user who is logged in
PostTemplateValidation(u, t, txt, fatalStr, mustContainStr) ==
    /\ LET isFatal == fatalStr = "1"
           mustContain == mustContainStr = "1"
           streamId == 1
       IN  IF templates[t].exists /\ ~(Len(TrimSpace(txt)) < 1)
              THEN /\ templates' = [templates EXCEPT ![t] =
                          AddValidationRule(@, newExecutionValidation(txt, isFatal,
                                                                      mustContain, streamId))]
                   /\ disk' = [disk EXCEPT !.templates = templates']
                   /\ jr' = "OK"
              ELSE /\ jr' = "ERROR"
                   /\ UNCHANGED <<templates, disk>>
    /\ UNCHANGED <<regVars, listVars, userStore, callVars, requests, entries, nextCalls,
                   aborting, nextRun, srvVars, cliVars, abortedPending, abortDone,
                   pollVars>>

InitRules == InitSweep

NextRules ==
    \/ \E u \in Users, s \in StrategyNames, minAuth \in 1..MaxMinAuth :
          PostTemplate(u, s, minAuth)
    \/ \E u \in Users, t \in TemplateIds : DeleteTemplate(u, t)
    \/ \E u \in Users, t \in TemplateIds, txt \in RuleTexts, fatalStr \in FormFlags,
          mustContainStr \in FormFlags :
          /\ templates[t].exists => Len(templates[t].ValidationRules) < MaxRules
          /\ PostTemplateValidation(u, t, txt, fatalStr, mustContainStr)

SpecRules == InitRules /\ [][NextRules]_vars

(***************************************************************************)
(* Specification of the AgentStore: callers that add agent objects, remove *)
(* them by object or by id, and look ids up, in any order.                 *)
(***************************************************************************)
\* agent, ok := a.agents[Id]: the agent and nil, or nil (0) and an error
Get(ags, objs, id) ==
    IF id \in ags THEN [agent |-> objs[id], err |-> FALSE]
    ELSE [agent |-> 0, err |-> TRUE]

\* an Add that leaves the object of a registered id in place
AddIfAbsent(a, obj) ==
    /\ agents' = agents \cup {a}
    /\ objects' = IF a \in agents THEN objects ELSE [objects EXCEPT ![a] = obj]
    /\ reply' = "OK"
    /\ UNCHANGED <<LastPing, Tags, now, pinging, listVars, storeVars, httpReq, reporting,
                   reading, consVars, cmdVars>>

\* a.agents[agent.Id()] = agent; return nil
Add(a, obj) ==
    /\ agents' = agents \cup {a}
    /\ objects' = [objects EXCEPT ![a] = obj]
    /\ reply' = "OK"
    /\ UNCHANGED <<LastPing, Tags, now, pinging, listVars, storeVars, httpReq, reporting,
                   reading, consVars, cmdVars>>

\* delete(a.agents, Id); return nil
RemoveById(a) ==
    /\ agents' = agents \ {a}
    /\ objects' = [objects EXCEPT ![a] = 0]
    /\ reply' = "OK"
    /\ UNCHANGED <<LastPing, Tags, now, pinging, listVars, storeVars, httpReq, reporting,
                   reading, consVars, cmdVars>>

\* a.RemoveById(agent.Id()); return nil: of any object that has the id
Remove(a, obj) == RemoveById(a)

\* a call of Get, and the error it returns or not
AgentGet(a) ==
    /\ reply' = IF Get(agents, objects, a).err THEN "ERROR" ELSE "OK"
    /\ UNCHANGED <<regVars, listVars, storeVars, httpReq, reporting, reading, consVars,
                   cmdVars>>

InitAgentStore == InitSweep

NextAgentStore ==
    \/ \E a \in AgentIds, obj \in 1..MaxObjects : Add(a, obj)
    \/ \E a \in AgentIds, obj \in 1..MaxObjects : Remove(a, obj)
    \/ \E a \in AgentIds : RemoveById(a)
    \/ \E a \in AgentIds : AgentGet(a)

SpecAgentStore == InitAgentStore /\ [][NextAgentStore]_vars

(***************************************************************************)
(* Specification of the pings: requests of GET /client/:clientId/ping run  *)
(* side by side, while commands are submitted to the agents of the         *)
(* registry and an agent asks for a new token. RegisterClient looks the    *)
(* agent up under the registry's read lock, and adds a new one under the   *)
(* write lock when it has found none. The fields of an agent id are those  *)
(* of the object the registry holds for it.                                *)
(***************************************************************************)
\* agent, _ := s.agentService.Get(clientId)
RegisterClientGet(p, a, tags) ==
    /\ ~pinging[p].active
    /\ pinging' = [pinging EXCEPT ![p] =
                      [active |-> TRUE, clientId |-> a, tags |-> tags,
                       agent |-> Get(agents, objects, a).agent]]
    /\ UNCHANGED <<agents, LastPing, Tags, now, objects, listVars, consVars, cmdVars,
                   storeVars, callVars>>

\* if agent == nil { agent = newRegisteredClient(clientId); Add(agent) };
\* agent.Update(tags): a new object has no token, empty maps and its own
\* channel; an Update of an object the registry no longer holds is not seen
RegisterClientAdd(p) ==
    /\ pinging[p].active
    /\ LET a == pinging[p].clientId
       IN  IF pinging[p].agent = 0
              THEN /\ agents' = agents \cup {a}
                   /\ objects' = [objects EXCEPT ![a] = @ + 1]
                   /\ AuthToken' = [AuthToken EXCEPT ![a] = 0]
                   /\ Cmds' = [Cmds EXCEPT ![a] = {}]
                   /\ DispatchedCmds' = [DispatchedCmds EXCEPT ![a] = {}]
                   /\ CmdChan' = [CmdChan EXCEPT ![a] = 0]
                   /\ Update(a, pinging[p].tags)
              ELSE /\ IF pinging[p].agent = objects[a]
                         THEN Update(a, pinging[p].tags)
                         ELSE UNCHANGED <<LastPing, Tags>>
                   /\ UNCHANGED <<agents, objects, AuthToken, Cmds, DispatchedCmds, CmdChan>>
    /\ pinging' = [pinging EXCEPT ![p] = NoPing]
    /\ UNCHANGED <<now, listVars, consVars, cmd, tokens, cliVars, histVars, storeVars,
                   callVars>>

InitPing ==
    /\ agents = {}
    /\ Tags = [a \in AgentIds |-> <<>>]
    /\ LastPing = [a \in AgentIds |-> 0]
    /\ now = 1
    /\ InitObjects
    /\ listArgs = NoCall
    /\ listRes = <<>>
    /\ templates = [t \in TemplateIds |-> IF t = 1 THEN newTemplate("simple", 1) ELSE NoTemplate]
    /\ requests = [r \in ReqIds |-> NoRequest]
    /\ entries = [r \in ReqIds |-> NoEntry]
    /\ nextCalls = [r \in ReqIds |-> 0]
    /\ aborting = NoAbort
    /\ nextRun = NoRun
    /\ AuthToken = [a \in AgentIds |-> 0]
    /\ clientToken = [a \in AgentIds |-> 0]
    /\ tokens = MaxAgents
    /\ CmdChan = [a \in AgentIds |-> 0]
    /\ clientCmds = [a \in AgentIds |-> <<>>]
    /\ running = [a \in AgentIds |-> NotRunning]
    /\ abortedPending = {}
    /\ abortDone = {}
    /\ returned = [c \in CmdIds |-> 0]
    /\ lastPoll = [a \in AgentIds |-> "none"]
    /\ jr = "none"
    /\ InitNoCmds
    /\ InitStoresAndCalls

NextPing ==
    \/ \E p \in Pingers, a \in PollAgents, tags \in {<<>>, <<1>>} : RegisterClientGet(p, a, tags)
    \/ \E p \in Pingers : RegisterClientAdd(p)
    \/ \E a \in AgentIds : SubmitCmd(a)
    \/ \E a \in AgentIds : PostClientAuth(a)

SpecPing == InitPing /\ [][NextPing]_vars

(***************************************************************************)
(* C1: an agent moves a command to `starting`, and runs it, only when the  *)
(* signature is not empty and equals the HMAC of (command, id) under the   *)
(* agent's current token; otherwise the command goes to invalid_signature, *)
(* the agent asks the coordinator for a new token and gives the command up.*)
(***************************************************************************)
SignedByCurrentToken(a) ==
    /\ Len(running[a].Signature) > 0
    /\ running[a].Signature = ComputeHmac(clientToken[a], running[a].Command, running[a].Id)

AllowedTransitions ==
    {<<"pending", "validating">>, <<"validating", "starting">>,
     <<"validating", "invalid_signature">>, <<"starting", "started_execution">>,
     <<"started_execution", "finished_execution">>,
     <<"started_execution", "failed_execution">>,
     <<"started_execution", "killed_execution">>,
     <<"finished_execution", "flushed_logs">>, <<"failed_execution", "flushed_logs">>,
     <<"killed_execution", "flushed_logs">>,
     <<"flushed_logs", "finished">>, <<"flushed_logs", "failed">>,
     <<"flushed_logs", "failed_validation">>, <<"finished", "failed_validation">>,
     <<"finished_execution", "finished">>, <<"finished_execution", "failed_validation">>,
     <<"failed_execution", "failed">>, <<"killed_execution", "failed">>}

C2_OnlyEnumeratedTransitions ==
    [][\A id \in CmdIds :
          (cmd[id].exists /\ cmd'[id].exists /\ cmd'[id].state # cmd[id].state) =>
              <<cmd[id].state, cmd'[id].state>> \in AllowedTransitions]_vars

(***************************************************************************)
(* C3: no request is Approved, or handed to the execution coordinator,     *)
(* with fewer approvers than the minimum of its template.                  *)
(***************************************************************************)
C3_ApprovedHasQuorum ==
    \A r \in ReqIds :
        (requests[r].exists
         /\ (requests[r].state \in {"Approved", "Executing", "Completed"}
             \/ entries[r].exists \/ nextCalls[r] > 0)) =>
            /\ templates[requests[r].TemplateId].exists
            /\ Cardinality(requests[r].ApproveUserIds)
                  >= templates[requests[r].TemplateId].MinAuth

\* a template that asks for two approvals and a request of u1 that u2 and u4
\* have approved: it is Approved and has its entry
C3_Witness ==
    \E r \in ReqIds :
        /\ requests[r].exists /\ requests[r].state = "Approved"
        /\ entries[r].exists
        /\ templates[requests[r].TemplateId].MinAuth = 2
        /\ requests[r].RequestUserId = "u1"
        /\ requests[r].ApproveUserIds = {"u2", "u4"}

(***************************************************************************)
(* C4: within a request, a command of a later iteration exists only when   *)
(* every command of the earlier iterations is terminal, also when several  *)
(* commands of a wave finish one after the other and each calls Next().    *)
(***************************************************************************)
C4_WavesDoNotOverlap ==
    \A c1, c2 \in CmdIds :
        (/\ cmd[c1].exists /\ cmd[c2].exists
         /\ cmd[c1].ConsensusRequestId = cmd[c2].ConsensusRequestId
         /\ cmd[c1].ExecutionIterationId < cmd[c2].ExecutionIterationId) =>
            cmd[c1].state \in Terminal

\* a wave of two commands has finished, each has called Next(), one of the
\* calls has submitted the next iteration and the other still waits
C4_Witness ==
    \E c1, c2, c3 \in CmdIds :
        /\ c1 # c2
        /\ cmd[c1].exists /\ cmd[c2].exists /\ cmd[c3].exists
        /\ cmd[c1].ExecutionIterationId = 1 /\ cmd[c2].ExecutionIterationId = 1
        /\ cmd[c1].state = "finished" /\ cmd[c2].state = "finished"
        /\ cmd[c3].ExecutionIterationId = 2
        /\ nextCalls[cmd[c3].ConsensusRequestId] = 1

(***************************************************************************)
(* C5: List(I, E) returns exactly the registered agents that have every    *)
(* tag of I and no tag of E, each once; an empty list constrains nothing.  *)
(***************************************************************************)
TagsOf(a) == {Tags[a][i] : i \in DOMAIN Tags[a]}
Range(s) == {s[i] : i \in DOMAIN s}

C5_ListExact ==
    listArgs # NoCall =>
        /\ Range(listRes) = {a \in agents :
                                /\ Range(listArgs[1]) \subseteq TagsOf(a)
                                /\ Range(listArgs[2]) \cap TagsOf(a) = {}}
        /\ \A i, j \in DOMAIN listRes : i # j => listRes[i] # listRes[j]

\* a call with an include tag and another exclude tag: of two agents that
\* have the include tag, the one that also has the exclude tag is dropped
C5_Witness ==
    /\ listArgs # NoCall
    /\ Len(listArgs[1]) = 1 /\ Len(listArgs[2]) = 1
    /\ listArgs[1][1] # listArgs[2][1]
    /\ Cardinality(agents) = 2
    /\ \A a \in agents : HasTag(a, listArgs[1][1])
    /\ \E a \in agents : HasTag(a, listArgs[2][1])
    /\ Len(listRes) = 1

(***************************************************************************)
(* C6: when the abort of a request returns, no registered agent holds a    *)
(* command of the request in DispatchedCmds, whatever the coordinator      *)
(* submitted while the abort ran.                                          *)
(***************************************************************************)
C6_AbortClearsInflight ==
    [][ConsensusAbort =>
          \A a \in agents : \A id \in DispatchedCmds'[a] :
              cmd'[id].ConsensusRequestId # aborting.req]_vars

(***************************************************************************)
(* C7: the sweep removes exactly the agents whose last ping is older than  *)
(* five ping intervals, and keeps every agent that pinged within them.     *)
(***************************************************************************)
C7_SweepRemovesStale ==
    [][Cleanup => agents' = {a \in agents : now - LastPing[a] <= 5 * CLIENT_PING_INTERVAL}]_vars

(***************************************************************************)
(* C8: a command that AbortExecution removed while it was still pending is *)
(* never executed: the agent that is handed it turns it down at the        *)
(* signature check.                                                        *)
(***************************************************************************)
C8_AbortedPendingNeverRuns ==
    \A a \in AgentIds :
        (running[a].active /\ running[a].Id \in abortedPending) =>
            running[a].state \in {"validating", "invalid_signature"}

(***************************************************************************)
(* C9: under a strategy other than Simple, a command of the wave that ends *)
(* terminal and not finished aborts the request: once the coordinator and  *)
(* the agents have nothing left to do, the request is Aborted.             *)
(***************************************************************************)
\* no call of Next() waits or runs, no agent holds or expects a command
Settled ==
    /\ \A r \in ReqIds : nextCalls[r] = 0
    /\ ~nextRun.active
    /\ \A a \in AgentIds : Idle(a) /\ CmdChan[a] = 0

C9_FailureAbortsRequest ==
    \A id \in CmdIds :
        (/\ cmd[id].exists
         /\ cmd[id].state \in Terminal \ {"finished"}
         /\ templates[cmd[id].TemplateId].StrategyStr # "simple"
         /\ Settled) =>
            requests[cmd[id].ConsensusRequestId].state = "Aborted"

(***************************************************************************)
(* C10: the wave of iteration i is, in the insertion order of the          *)
(* request's agents, the next agents not yet dispatched: all of them for   *)
(* simple, 1 then all for one-test, 1 for rolling, min(2^i, remaining) for *)
(* exponential-rolling; each of them receives a command of iteration i.    *)
(***************************************************************************)
ExpectedWave(strategyStr, i, remaining) ==
    CASE strategyStr = "simple" -> remaining
      [] strategyStr = "one-test" -> IF i = 0 THEN 1 ELSE remaining
      [] strategyStr = "rolling" -> 1
      [] strategyStr = "exponential-rolling" -> IF 2 ^ i < remaining THEN 2 ^ i ELSE remaining

C12_RequesterNotCounted ==
    [][\A r \in ReqIds :
          /\ requests'[r].exists =>
                requests'[r].RequestUserId \notin requests'[r].ApproveUserIds
          /\ (requests[r].exists /\ PostConsensusApprove(requests[r].RequestUserId, r)) =>
                /\ requests' = requests
                /\ entries' = entries
                /\ nextCalls' = nextCalls
          /\ (~requests[r].exists /\ requests'[r].exists
              /\ templates[requests'[r].TemplateId].exists
              /\ templates[requests'[r].TemplateId].MinAuth >= 1) =>
                /\ requests'[r].state = "Pending"
                /\ requests'[r].ApproveUserIds = {}
                /\ ~entries'[r].exists
                /\ nextCalls'[r] = nextCalls[r]]_vars

\* u3, a requester who is an approver too, has a request whose template asks
\* for one approval; the request is Pending and nobody has approved it
C12_Witness ==
    \E r \in ReqIds :
        /\ requests[r].exists /\ requests[r].RequestUserId = "u3"
        /\ HasRole("u3", "approver")
        /\ templates[requests[r].TemplateId].exists
        /\ templates[requests[r].TemplateId].MinAuth = 1
        /\ requests[r].state = "Pending"
        /\ requests[r].ApproveUserIds = {}
        /\ ~entries[r].exists

(***************************************************************************)
(* C13: DELETE /consensus/request of an existing request goes ahead iff    *)
(* the caller is the requester of the request or an admin; for any other   *)
(* caller the answer is an error and the request, the coordinator's entry  *)
(* and the in-flight maps of the agents are unchanged.                     *)
(***************************************************************************)
C13_AbortIffRequesterOrAdmin ==
    [][\A u \in Users, r \in ReqIds :
          (requests[r].exists /\ DeleteConsensusRequest(u, r)) =>
              IF requests[r].RequestUserId = u \/ HasRole(u, "admin")
                  THEN aborting'.active /\ aborting'.req = r /\ jr' # "ERROR"
                  ELSE /\ jr' = "ERROR"
                       /\ UNCHANGED <<requests, entries, aborting, DispatchedCmds>>]_vars

(***************************************************************************)
(* C14: POST /consensus/request creates a request only for a caller with   *)
(* role requester, a valid two-factor proof and a reason whose trimmed     *)
(* text has 4 characters or more; a created request is Pending; when a     *)
(* check fails the answer is an error and the consensus store is as it was.*)
(***************************************************************************)
NonSpace(str) == {i \in DOMAIN str : str[i] # " "}

\* the length of the text between the first and the last non-space character
TrimmedLen(str) ==
    IF NonSpace(str) = {} THEN 0
    ELSE (CHOOSE i \in NonSpace(str) : \A j \in NonSpace(str) : j <= i)
         - (CHOOSE i \in NonSpace(str) : \A j \in NonSpace(str) : j >= i) + 1

SubstringOf(text, line) ==
    \E k \in 1..(Len(line) - Len(text) + 1) :
        \A j \in 1..Len(text) : line[k + j - 1] = text[j]

RuleMatches(v, c) ==
    LET stream == IF v.OutputStream = 1 THEN c.BufOutput ELSE c.BufOutputErr
    IN  \E i \in DOMAIN stream : SubstringOf(v.Text, stream[i])

RulesPass(c) ==
    \A i \in DOMAIN templates[c.TemplateId].ValidationRules :
        LET v == templates[c.TemplateId].ValidationRules[i]
        IN  v.MustContain <=> RuleMatches(v, c)

\* the step is the report of flushed_logs for command id, in finished_execution
FlushedAfterFinished(a, id) ==
    /\ cmd[id].exists /\ id \in DispatchedCmds[a]
    /\ cmd[id].state = "finished_execution"
    /\ PutClientCmdState(a, id, "flushed_logs")

C16_FailedOrKilledEndsFailed ==
    [][\A a \in AgentIds, id \in CmdIds :
          (/\ running[a].active /\ running[a].pc = "flush" /\ running[a].Id = id
           /\ ~running'[a].active
           /\ Len(running[a].Signature) > 0 /\ id \in DispatchedCmds[a]
           /\ cmd[id].state \in {"failed_execution", "killed_execution"}) =>
              /\ cmd'[id].state = "failed"
              /\ nextCalls' = nextCalls]_vars

(***************************************************************************)
(* C17: a command is carried by at most one poll response; once a response *)
(* has carried it, it is not Pending any more, and it is still in the      *)
(* in-flight map of its agent.                                             *)
(***************************************************************************)
C17_ReturnedAtMostOnce ==
    \A id \in CmdIds :
        cmd[id].exists =>
            /\ returned[id] <= 1
            /\ returned[id] = 1 <=> ~cmd[id].Pending
            /\ id \in DispatchedCmds[cmd[id].ClientId]

\* an agent was handed two commands by one poll, has executed them, and its
\* next poll, woken by the second submitter, carried nothing again
C17_Witness ==
    \E a \in AgentIds :
        /\ Cardinality({id \in Cmds[a] : returned[id] = 1}) >= 2
        /\ CmdChan[a] = 0
        /\ Idle(a)
        /\ lastPoll[a] = "cmds"

(***************************************************************************)
(* C18: a command submitted to a registered agent that has a token and     *)
(* keeps polling is in the end carried by a poll response, also when       *)
(* several commands are submitted before the poll wakes up. A command      *)
(* stays submitted and `returned` never decreases, so the claim is that    *)
(* again and again every command submitted so far has been carried.        *)
(***************************************************************************)
AllReturned ==
    \A id \in CmdIds :
        (cmd[id].exists /\ cmd[id].ClientId \in agents /\ AuthToken[cmd[id].ClientId] # 0)
            => returned[id] >= 1

C18_SubmittedIsReturned == []<>AllReturned

\* one poll carried two commands while the second submitter was still
\* blocked on the channel
C18_Witness ==
    \E a \in AgentIds :
        /\ Cardinality({id \in Cmds[a] : returned[id] = 1}) >= 2
        /\ CmdChan[a] = 1
        /\ Len(clientCmds[a]) = 2

(***************************************************************************)
(* C19: a Submit to an agent of the registry returns in the end: no sender *)
(* stays blocked on the agent's channel for ever, whatever the agent does. *)
(***************************************************************************)
C19_SubmitReturns ==
    \A a \in AgentIds :
        (a \in agents /\ CmdChan[a] > 0) ~> (CmdChan[a] = 0)

(***************************************************************************)
(* C20: a long poll that ends on its timeout, no sender having come,       *)
(* answers with the empty list and leaves the pending map, the in-flight   *)
(* map and the commands of the agent as they were.                         *)
(***************************************************************************)
C20_TimeoutIsEmptyAndFrames ==
    [][\A a \in AgentIds :
          (lastPoll'[a] = "timeout" /\ lastPoll[a] # "timeout") =>
              /\ CmdChan[a] = 0
              /\ clientCmds'[a] = <<>>
              /\ Cmds' = Cmds
              /\ DispatchedCmds' = DispatchedCmds
              /\ cmd' = cmd
              /\ returned' = returned]_vars

\* a poll of an agent with a command in flight, handed over before, ended
\* on its timeout
C20_Witness ==
    \E a \in AgentIds :
        /\ lastPoll[a] = "timeout"
        /\ DispatchedCmds[a] # {}
        /\ clientCmds[a] = <<>>
        /\ \A id \in DispatchedCmds[a] : returned[id] = 1

(***************************************************************************)
(* C21: while an agent of the registry has no token, its polls are         *)
(* answered with an error: no step hands it a command, takes a signal from *)
(* its channel, or makes a pending command of it not pending.              *)
(***************************************************************************)
C21_NoTokenNoCommands ==
    [][\A a \in AgentIds :
          (a \in agents /\ AuthToken[a] = 0) =>
              /\ lastPoll'[a] # lastPoll[a] => lastPoll'[a] = "rejected"
              /\ clientCmds'[a] = clientCmds[a]
              /\ CmdChan'[a] >= CmdChan[a]
              /\ \A id \in PendingOf(a) : id \in Cmds'[a] /\ cmd'[id].Pending
              /\ \A id \in Cmds[a] : returned'[id] = returned[id]]_vars

\* two senders wait on the channel of an agent without a token, whose poll
\* was rejected: both commands are pending still
C21_Witness ==
    \E a \in AgentIds :
        /\ a \in agents /\ AuthToken[a] = 0
        /\ lastPoll[a] = "rejected"
        /\ CmdChan[a] = 2
        /\ Cardinality(PendingOf(a)) = 2
        /\ clientCmds[a] = <<>>

(***************************************************************************)
(* C22: when LogOutput or LogError of a signed command returns, neither    *)
(* the output buffer nor the error buffer of the agent holds 10 lines or   *)
(* more: ten lines in one of them have caused an upload.                   *)
(***************************************************************************)
C22_UploadFromTenLines ==
    [][\A a \in AgentIds :
          ((LogOutput(a) \/ LogError(a)) /\ Len(running[a].Signature) > 0) =>
              /\ Len(running'[a].BufOutput) < 10
              /\ Len(running'[a].BufOutputErr) < 10]_vars

(***************************************************************************)
(* C23: the last upload of a signed command comes before its report of     *)
(* flushed_logs; when the report reaches the coordinator for a command in  *)
(* finished_execution, and no upload of the command has failed, the        *)
(* coordinator's buffers hold the lines of the process, all of them, in    *)
(* their order, and the agent's buffers are empty.                         *)
(***************************************************************************)
\* the step is the report of flushed_logs of agent a, it has reached the
\* coordinator, and the coordinator judges the rules
ValidatedAtFlushed(a) ==
    /\ NotifyFlushed(a)
    /\ Len(running[a].Signature) > 0
    /\ cmd[running[a].Id].exists
    /\ cmd[running[a].Id].state = "finished_execution"
    /\ cmd'[running[a].Id] # cmd[running[a].Id]

C24_AtMostTenAttempts ==
    [][/\ httpReq'.pc # "idle" => httpReq'.tries <= Retries
       /\ (httpReq.pc = "try" /\ httpReq' # httpReq /\ httpReq'.last.err = "none") =>
              /\ httpReq'.pc = "done"
              /\ httpReq'.err = "none"
              /\ httpReq'.bytes = httpReq'.last.status
              /\ httpReq'.tries = httpReq'.i + 1
       /\ (httpReq.pc = "done" /\ httpReq' # httpReq) =>
              httpReq'.pc = "try" /\ httpReq'.tries = 0
       /\ (httpReq.pc = "sleep" /\ httpReq.tries = Retries /\ httpReq' # httpReq) =>
              httpReq'.pc = "done"
       /\ (httpReq'.pc = "done" /\ httpReq'.err # "none") =>
              /\ httpReq'.tries = Retries
              /\ httpReq'.err = httpReq'.last.err
              /\ httpReq'.bytes = 0]_vars

\* ten attempts have failed, the last one on the network, and the call is over
C24_Witness ==
    /\ httpReq.pc = "done"
    /\ httpReq.tries = 10
    /\ httpReq.err = "network"
    /\ httpReq.slept >= 25 + 9 * 9 * 10000

(***************************************************************************)
(* C25: an attempt that fails for a while - an error of the network, or a  *)
(* response with a status 5xx - is followed by the sleep and a retry, and  *)
(* the call never ends in a success on it.                                 *)
(***************************************************************************)
Transient(o) == o.err \in {"network", "read"} \/ o.status \in 500..599

C25_TransientIsRetried ==
    [][(httpReq.pc = "try" /\ httpReq' # httpReq /\ Transient(httpReq'.last)) =>
           /\ httpReq'.pc = "sleep"
           /\ httpReq'.err # "none"]_vars

(***************************************************************************)
(* C26: a poll, a state report, a log upload or a call for a token that    *)
(* names an agent the registry does not hold is answered with an error, no *)
(* agent is created and nothing of the coordinator changes.                *)
(***************************************************************************)
C26_UnknownAgentNotFound ==
    [][\A a \in AgentIds :
          (\/ ClientCmdsUnknown(a)
           \/ PutClientCmdStateUnknown(a)
           \/ PutClientCmdLogsUnknown(a)
           \/ PostClientAuthUnknown(a)) =>
              /\ reply' = "ERROR"
              /\ agents' = agents
              /\ UNCHANGED <<LastPing, Tags, consVars, srvVars, storeVars>>]_vars

(***************************************************************************)
(* C27: once a request has been aborted, a state report or an upload for   *)
(* one of its commands is answered with an error, no command of the        *)
(* request changes its state or its buffers, and no Next() of the request  *)
(* is called - wherever the abort fell in a report that was under way.     *)
(***************************************************************************)
C27_ReportsAfterAbortIgnored ==
    [][\A r \in abortDone :
          /\ \A id \in CmdIds :
                (cmd[id].exists /\ cmd[id].ConsensusRequestId = r) => cmd'[id] = cmd[id]
          /\ nextCalls'[r] = nextCalls[r]
          /\ \A a \in AgentIds :
                (/\ PutClientCmdStateApply(a) \/ PutClientCmdLogsApply(a)
                 /\ cmd[reporting[a].id].ConsensusRequestId = r) => reply' = "ERROR"]_vars

(***************************************************************************)
(* C28: after every operation of the coordinator on the consensus, the     *)
(* templates or the users, the files hold what the stores hold in memory.  *)
(***************************************************************************)
C28_DiskEqualsMemory == disk = InMemory

(***************************************************************************)
(* C29: an agent polls only when it executes nothing and has nothing left  *)
(* of its last poll; a command starts only when no command runs on the     *)
(* agent, and it is the first of those the poll returned that have not yet *)
(* run, so that the commands of a poll run one after another in the order  *)
(* returned.                                                               *)
(***************************************************************************)
C29_OneCommandAtATime ==
    [][\A a \in AgentIds :
          /\ (ClientCmds(a) \/ ClientCmdsTimeout(a) \/ ClientCmdsRejected(a)) =>
                 clientCmds[a] = <<>> /\ ~running[a].active
          /\ (running'[a].active /\ (running[a].active => running[a].Id # running'[a].Id)) =>
                 /\ ~running[a].active
                 /\ clientCmds[a] # <<>>
                 /\ running'[a].Id = Head(clientCmds[a]).Id
                 /\ clientCmds'[a] = Tail(clientCmds[a])
          /\ (clientCmds'[a] # clientCmds[a]) =>
                 \/ clientCmds[a] = <<>> /\ ~running[a].active
                 \/ /\ clientCmds'[a] = Tail(clientCmds[a])
                    /\ ~running[a].active /\ running'[a].active]_vars

\* one poll has returned two commands to an agent: the first has run to its
\* end, the second is running, and the agent has not polled again
C29_Witness ==
    \E a \in AgentIds, first \in CmdIds, second \in CmdIds :
        /\ first # second
        /\ cmd[first].exists /\ cmd[first].ClientId = a
        /\ cmd[second].exists /\ cmd[second].ClientId = a
        /\ returned[first] = 1 /\ returned[second] = 1
        /\ CmdChan[a] = 1
        /\ cmd[first].state \in {"finished", "failed", "failed_validation"}
        /\ running[a].active /\ running[a].Id = second /\ running[a].pc = "wait"
        /\ clientCmds[a] = <<>>

(***************************************************************************)
(* C30: a read of an agent's in-flight map that no writer has come between *)
(* returns the commands of the map that were created in the last 14 days,  *)
(* those and no others; when it returns, every older command is out of the *)
(* map and every other command of the map is still in it.                  *)
(***************************************************************************)
\* the step is the return of a read of agent a's map
ReadReturns(a) ==
    \/ GetDispatchedCmdsRead(a) /\ ~reading'[a].active
    \/ GetDispatchedCmdsSwap(a)

C31_RuleKeepsInputs ==
    [][\A u \in Users, t \in TemplateIds, txt \in RuleTexts, fatalStr \in FormFlags,
          mustContainStr \in FormFlags :
          (PostTemplateValidation(u, t, txt, fatalStr, mustContainStr) /\ jr' = "OK") =>
              LET rules == templates'[t].ValidationRules
                  rule == rules[Len(rules)]
              IN  /\ rule.Text = txt
                  /\ rule.Fatal = (fatalStr = "1")
                  /\ rule.MustContain = (mustContainStr = "1")
                  /\ \A fatal \in BOOLEAN, mustContain \in BOOLEAN, stream \in {1, 2} :
                        LET made == newExecutionValidation(txt, fatal, mustContain, stream)
                        IN  /\ made.Fatal = fatal
                            /\ made.MustContain = mustContain
                            /\ made.OutputStream = stream]_vars

(***************************************************************************)
(* C32: the AgentStore is a map keyed by the agents' ids: after Add(a) Get *)
(* of a's id returns a and no error; after Remove or RemoveById Get of the *)
(* id returns an error and no agent; a removal of an id the store does not *)
(* hold changes nothing; no call touches another id, Get changes nothing,  *)
(* and Add and the removals return no error.                               *)
(***************************************************************************)
C32_AgentStoreIsAMap ==
    [][\A a \in AgentIds :
          /\ \A obj \in 1..MaxObjects :
                Add(a, obj) =>
                    /\ Get(agents', objects', a) = [agent |-> obj, err |-> FALSE]
                    /\ reply' = "OK"
          /\ (RemoveById(a) \/ \E obj \in 1..MaxObjects : Remove(a, obj)) =>
                    /\ Get(agents', objects', a) = [agent |-> 0, err |-> TRUE]
                    /\ reply' = "OK"
                    /\ a \notin agents => agents' = agents /\ objects' = objects
          /\ AgentGet(a) =>
                    /\ agents' = agents /\ objects' = objects
                    /\ reply' = "OK" <=> a \in agents
          /\ (\E obj \in 1..MaxObjects : Add(a, obj) \/ Remove(a, obj)) \/ RemoveById(a) =>
                    \A b \in AgentIds \ {a} :
                        Get(agents', objects', b) = Get(agents, objects, b)]_vars

\* an id has been added twice and holds the second object, another id has
\* been added and removed, and a Get has just returned the error
C32_Witness ==
    /\ 1 \in agents /\ objects[1] = 2
    /\ 2 \notin agents /\ objects[2] = 0
    /\ 3 \in agents /\ objects[3] = 1
    /\ reply = "ERROR"

(***************************************************************************)
(* C33: a command that is finished, failed, failed_validation or           *)
(* invalid_signature on the coordinator stays as it is: a later report of  *)
(* a state changes neither its state nor its buffers and calls no Next().  *)
(***************************************************************************)
C33_TerminalIsAbsorbing ==
    [][\A a \in AgentIds, id \in CmdIds, state \in CmdStates :
          (/\ PutClientCmdState(a, id, state)
           /\ id \in DispatchedCmds[a]
           /\ cmd[id].state \in Terminal) =>
              /\ cmd'[id] = cmd[id]
              /\ nextCalls' = nextCalls]_vars

(***************************************************************************)
(* C34: a report of a state that is delivered twice in a row leaves the    *)
(* command as one delivery leaves it: the handler, run once more on what   *)
(* it has just written, writes the same.                                   *)
(***************************************************************************)
C34_ReportIsIdempotent ==
    [][\A a \in AgentIds, id \in CmdIds, state \in CmdStates :
          (PutClientCmdState(a, id, state) /\ id \in DispatchedCmds[a]) =>
              SetState(cmd'[id], state, TRUE).state = cmd'[id].state]_vars

(***************************************************************************)
(* C35: when the coordinator takes the report of flushed_logs for a        *)
(* command in finished_execution, the command comes out of the handler     *)
(* finished or failed_validation, and not in flushed_logs - also when an   *)
(* admin has deleted the command's template in the meantime.               *)
(***************************************************************************)
C35_FlushedLogsNeverStays ==
    [][\A a \in AgentIds, id \in CmdIds :
          (/\ PutClientCmdState(a, id, "flushed_logs")
           /\ id \in DispatchedCmds[a]
           /\ cmd[id].state = "finished_execution") =>
              cmd'[id].state \in {"finished", "failed_validation"}]_vars

(***************************************************************************)
(* C36: every command whose signature check has passed (the agent has      *)
(* reported starting) comes to the report of flushed_logs in the end,      *)
(* whichever way its process ends: it finishes, exits with an error, does  *)
(* not start, or runs into the timeout, the kill failing included. What    *)
(* the report of flushed_logs leaves on the coordinator is flushed_logs,   *)
(* or finished, failed_validation or failed.                               *)
(***************************************************************************)
AfterFlushedLogs == {"flushed_logs", "finished", "failed_validation", "failed"}

\* the state the coordinator holds for a command, "" for none
StateOf(id) == IF cmd[id].exists THEN cmd[id].state ELSE ""

C36_StartedCommandReportsFlushed ==
    \A id \in {<<1, n>> : n \in 1..MaxSubmits} :
        (StateOf(id) = "starting") ~> (StateOf(id) \in AfterFlushedLogs)

(***************************************************************************)
(* C37: the purge of GetDispatchedCmds loses no update made while it is    *)
(* under way: when it writes its copy back, a command that Submit has put  *)
(* into the in-flight map since the purge read it is still in the map,     *)
(* and a command that AbortExecution has taken out since is still out.     *)
(***************************************************************************)
C37_PurgeKeepsConcurrentUpdates ==
    [][\A a \in AgentIds :
          GetDispatchedCmdsSwap(a) =>
              /\ \A k \in DispatchedCmds[a] \ reading[a].seen : k \in DispatchedCmds'[a]
              /\ \A k \in reading[a].seen \ DispatchedCmds[a] : k \notin DispatchedCmds'[a]]_vars

(***************************************************************************)
(* C38: Commands() returns the commands that are in the agent's in-flight  *)
(* map at one instant, whatever Submit and AbortExecution do while it is   *)
(* under way: each of them once, no nil entry, and no assignment past the  *)
(* end of the result.                                                      *)
(***************************************************************************)
\* the step is the loop and the return of Commands() for agent a
CommandsReturns(a) == CommandsLoop(a)

C38_CommandsIsASnapshot ==
    [][\A a \in AgentIds :
          CommandsReturns(a) =>
              LET r == reading'[a]
              IN  /\ ~r.panic
                  /\ \A i \in DOMAIN r.commands : r.commands[i] # NilCmd
                  /\ {r.commands[i] : i \in DOMAIN r.commands} = DispatchedCmds[a]
                  /\ Len(r.commands) = Cardinality(DispatchedCmds[a])]_vars

(***************************************************************************)
(* C39: a ping never replaces an agent that is registered: from the first  *)
(* registration of an id on, the registry holds the same agent object for  *)
(* it, and no step of a ping changes its token, its pending map or its     *)
(* in-flight map, however the pings for the id, the requests for a new     *)
(* token and the calls of Submit interleave.                               *)
(***************************************************************************)
C39_PingKeepsRegisteredAgent ==
    [][\A p \in Pingers :
          (RegisterClientAdd(p) /\ pinging[p].clientId \in agents) =>
              LET a == pinging[p].clientId
              IN  /\ objects'[a] = objects[a]
                  /\ AuthToken'[a] = AuthToken[a]
                  /\ Cmds'[a] = Cmds[a]
                  /\ DispatchedCmds'[a] = DispatchedCmds[a]]_vars

(***************************************************************************)
(* C40: a new token for an agent does not invalidate the commands that     *)
(* were signed and submitted to it before: every command that the          *)
(* coordinator has signed for the agent, and that the agent has taken from *)
(* a poll, passes the agent's signature check and goes to starting,        *)
(* however Sign and Submit, the requests for a token and the polls         *)
(* interleave.                                                             *)
(***************************************************************************)
\* the command agent a is about to check is one the coordinator has signed
\* for a, as the coordinator has signed it
SignedForAgent(a) ==
    LET c == running[a]
    IN  /\ cmd[c.Id].exists /\ cmd[c.Id].ClientId = a
        /\ Len(c.Signature) > 0
        /\ c.Signature = cmd[c.Id].Signature /\ c.Command = cmd[c.Id].Command

C40_RotationKeepsSignedCommands ==
    [][\A a \in AgentIds :
          (ExecuteCheck(a) /\ SignedForAgent(a)) =>
              running'[a].state = "starting" /\ running'[a].pc = "start"]_vars

====
